---- MODULE Spec2Model ----
(***************************************************************************)
(* Model of the VMC protocol engine (app/core/vmc_controller.py) and of   *)
(* the request facade in front of it (app/services/dispense_service.py).  *)
(*                                                                         *)
(* Threads: the link loop (listen_loop) runs on its own thread and        *)
(* handles one decoded frame at a time; facade calls run on the asyncio   *)
(* loop thread.  Where the engine touches shared state outside its lock   *)
(* (the DISPENSING re-arm, the comm counter) the link thread's handler is *)
(* split at that point, so that a caller step can fall in between.        *)
(***************************************************************************)
EXTENDS Integers, Sequences, FiniteSets, TLC

(* ------------------------------ bounds -------------------------------- *)
\* number of facade calls (dispense / check_aisle_status) made in a run
NumCalls == 1
\* calls of get_next_comm_number in the specification of the generator alone
MaxCommCalls == 520
\* number of REQUEST_SYNC frames the VMC sends in a run
MaxSync == 1
\* max_retries is configured in 1..MaxRetriesCfg
MaxRetriesCfg == 2

(* --------------------------- program constants ------------------------ *)
\* class Command
POLL == 65
ACK == 66
CHECK_AISLE == 1
AISLE_STATUS_RESPONSE == 2
SELECT_BUY == 3
DISPENSING_STATUS == 4
DRIVE_AISLE_DIRECT == 6
AISLE_INFO == 17
REQUEST_SYNC == 49
\* VendingMachineController.STX and COMMAND_TIMEOUT (in clock units)
STX == <<250, 251>>
COMMAND_TIMEOUT == 1

\* Python's None where the other values are strings (enum members)
None == "None"
\* Python's None where the other values are records or tuples: an optional value is
\* the empty sequence or a one-element sequence
Nothing == <<>>
Some(x) == <<x>>
\* the clock's origin: the time of the last command write (see Tick)
Epoch == 0
\* sent_time before the first send (None in the code; never read while it is None)
NoTime == 0 - 1

(* ------------------------------ domains ------------------------------- *)
Callers == 1..NumCalls
\* aisle numbers: the keys of the pending tables
Aisles == {1, 2}
\* the aisles callers use (callers are numbered in the order of their calls, and
\* aisles in the order of their first use), and an aisle none uses
UsedAisles == {a \in Aisles : a <= NumCalls}
UnusedAisle == 2
\* an aisle number that does not fit struct.pack(">H", ...)
BigAisle == 65536
\* status bytes the VMC puts in DISPENSING_STATUS / AISLE_STATUS_RESPONSE
StatusCodes == 1..6

(* --------------------------- enums as functions ----------------------- *)
\* DispensingStatus(status_code), None on ValueError
DispensingStatus(code) ==
    CASE code = 1 -> "DISPENSING"
      [] code = 2 -> "SUCCESS"
      [] code = 3 -> "JAMMED"
      [] code = 4 -> "MOTOR_DOESNT_STOP"
      [] code = 6 -> "MOTOR_DOESNT_EXIST"
      [] OTHER -> None

\* AisleStatus(status_code), None on ValueError
AisleStatus(code) ==
    CASE code = 1 -> "NORMAL"
      [] code = 2 -> "OUT_OF_STOCK"
      [] code = 3 -> "DOESNT_EXIST"
      [] code = 4 -> "PAUSED"
      [] OTHER -> None

(* ------------------------------- framer ------------------------------- *)
RECURSIVE BitXor(_, _)
BitXor(a, b) ==
    IF a = 0 THEN b
    ELSE IF b = 0 THEN a
    ELSE (((a % 2) + (b % 2)) % 2) + (2 * BitXor(a \div 2, b \div 2))

RECURSIVE calculate_xor(_)
calculate_xor(data) ==
    IF data = <<>> THEN 0
    ELSE IF Len(data) = 1 THEN data[1]
    ELSE BitXor(calculate_xor(SubSeq(data, 1, Len(data) \div 2)),
                calculate_xor(SubSeq(data, (Len(data) \div 2) + 1, Len(data))))

\* (mutant) the checksum is the sum of the bytes
create_packet_sum(command, text) ==
    LET packet == STX \o <<command, Len(text)>> \o text
        RECURSIVE Sum(_)
        Sum(d) == IF d = <<>> THEN 0 ELSE (d[1] + Sum(Tail(d))) % 256
    IN  packet \o <<Sum(packet)>>

create_packet(command, text) ==
    LET packet == STX \o <<command, Len(text)>> \o text
    IN  packet \o <<calculate_xor(packet)>>

\* the values of the Command enum
CommandValues == {65, 66, 1, 2, 3, 4, 5, 6, 17, 18, 19, 20, 21, 36, 49, 81, 82}

\* (mutant) the checksum is not compared
parse_packet_nocheck(data) ==
    IF Len(data) < 5 THEN Nothing
    ELSE IF SubSeq(data, 1, 2) # STX THEN Nothing
    ELSE IF Len(data) < 5 + data[4] THEN Nothing
    ELSE IF data[3] \in CommandValues
         THEN Some([command |-> data[3], text |-> SubSeq(data, 5, 4 + data[4])])
         ELSE Nothing

\* (mutant) a command byte outside the Command enum is returned like any other
parse_packet_anycmd(data) ==
    IF Len(data) < 5 THEN Nothing
    ELSE IF SubSeq(data, 1, 2) # STX THEN Nothing
    ELSE IF Len(data) < 5 + data[4] THEN Nothing
    ELSE IF data[5 + data[4]] # calculate_xor(SubSeq(data, 1, 4 + data[4])) THEN Nothing
    ELSE Some([command |-> data[3], text |-> SubSeq(data, 5, 4 + data[4])])

\* parse_packet: Nothing for None, else the command and the text
parse_packet(data) ==
    IF Len(data) < 5 THEN Nothing
    ELSE IF SubSeq(data, 1, 2) # STX THEN Nothing
    ELSE LET command_value == data[3]
             length == data[4]
         IN  IF Len(data) < 5 + length THEN Nothing
             ELSE LET text == SubSeq(data, 5, 4 + length)
                      xor_received == data[5 + length]
                      xor_calculated == calculate_xor(SubSeq(data, 1, 4 + length))
                  IN  IF xor_received # xor_calculated THEN Nothing
                      ELSE IF command_value \in CommandValues
                           THEN Some([command |-> command_value, text |-> text])
                           ELSE Nothing

\* buffer.find(self.STX): the first index (from 1) where STX starts, 0 for -1
Find(buf) ==
    LET hits == {i \in 1..(Len(buf) - 1) : buf[i] = STX[1] /\ buf[i + 1] = STX[2]}
    IN  IF hits = {} THEN 0 ELSE CHOOSE i \in hits : \A j \in hits : i <= j

\* (mutant) a frame that is not complete yet is dropped from the buffer
RECURSIVE Drain_clear(_, _)
Drain_clear(buf, out) ==
    IF Len(buf) < 5 THEN <<buf, out>>
    ELSE LET stx_index == Find(buf)
         IN  IF stx_index = 0 THEN <<<<>>, out>>
             ELSE LET b == SubSeq(buf, stx_index, Len(buf))
                  IN  IF Len(b) < 5 THEN <<b, out>>
                      ELSE LET packet_length == 5 + b[4]
                           IN  IF Len(b) < packet_length THEN <<<<>>, out>>
                               ELSE Drain_clear(SubSeq(b, packet_length + 1, Len(b)),
                                                out \o parse_packet(SubSeq(b, 1, packet_length)))

\* listen_loop, the inner while loop: the buffer it leaves and the frames it passes
\* to handle_received_packet, after those in out
RECURSIVE Drain(_, _)
Drain(buf, out) ==
    IF Len(buf) < 5 THEN <<buf, out>>
    ELSE LET stx_index == Find(buf)
         IN  IF stx_index = 0 THEN <<<<>>, out>>
             ELSE LET b == SubSeq(buf, stx_index, Len(buf))
                  IN  IF Len(b) < 5 THEN <<b, out>>
                      ELSE LET packet_length == 5 + b[4]
                           IN  IF Len(b) < packet_length THEN <<b, out>>
                               ELSE Drain(SubSeq(b, packet_length + 1, Len(b)),
                                          out \o parse_packet(SubSeq(b, 1, packet_length)))

\* (mutant) the aisle number is packed low byte first
PackH_le(aisle_number) == <<(aisle_number % 256), (aisle_number \div 256)>>

\* struct.pack(">H", aisle_number) for 0 <= aisle_number <= 65535
PackH(aisle_number) == <<(aisle_number \div 256), (aisle_number % 256)>>

\* struct.unpack(">H", data[2:4])[0]
UnpackH(data) == (data[3] * 256) + data[4]

(* ------------------------------- state -------------------------------- *)
VARIABLES
    \* VendingMachineController
    life,                   \* lifespan position: new, connected, starting, serving, down
    connected,              \* self._connected
    serial_open,            \* self.serial is not None and self.serial.is_open
    running,                \* self.running
    max_retries,            \* self.max_retries
    comm_number,            \* self.comm_number
    command_queue,          \* self.command_queue
    dispense_callbacks,     \* self.dispense_callbacks: aisle -> caller, 0 when absent
    aisle_status_callbacks, \* self.aisle_status_callbacks
    now,                    \* time.time(), counted from the last command write
    \* link thread position inside handle_received_packet
    linkpc,                 \* idle, rearm (callback popped, not yet re-inserted), sync
    linklocal,              \* the local the link thread holds at that position
    nsync,                  \* REQUEST_SYNC frames received so far
    lock,                   \* self.lock: free, or held by the link thread or a caller
    \* DispenseService and its callers
    pending_dispenses,      \* self._pending_dispenses: aisle -> caller's future, 0 when absent
    pending_status_checks,  \* self._pending_status_checks
    cpc,                    \* caller position: idle, waiting, returned
    ckind,                  \* dispense, check
    caisle,                 \* the call's aisle_number
    fut,                    \* the call's future: none, pending, done, cancelled
    posted,                 \* results handed to loop.call_soon_threadsafe(future.set_result, .)
    fut_result,             \* the value future.set_result stored
    response,               \* the value the call returned
    \* observation of the last step
    nsub,                   \* commands appended to the queue so far; a queued command
                            \* carries its submission number (id) and the number of
                            \* its successful channel writes (writes)
    dropped,                \* the callers' commands handle_poll has discarded so far
    handled,                \* <<command byte>> of the frame the step handled, else <<>>
    wrote,                  \* frames the step wrote to the channel, in order
    invoked,                \* callback invocations of the step: <<caller, result>>
    tried,                  \* serial.write calls of the step, raising or not
    \* the serial channel towards the host and listen_loop's framing
    sent,                   \* the frames the VMC encoded onto the channel, in order
    channel,                \* bytes on the channel that the host has not read yet
    buffer,                 \* listen_loop's buffer
    received                \* the frames listen_loop passed to handle_received_packet

engine == <<life, connected, serial_open, running, max_retries, comm_number,
            command_queue, dispense_callbacks, aisle_status_callbacks, now>>
link == <<linkpc, linklocal, nsync, lock>>
facade == <<pending_dispenses, pending_status_checks, cpc, ckind, caisle,
            fut, posted, fut_result, response>>
obs == <<nsub, dropped, handled, wrote, invoked, tried>>
framer == <<sent, channel, buffer, received>>
vars == <<engine, link, facade, obs, framer>>

\* (mutant) the connection is never found closed
is_connected_always == TRUE

\* VendingMachineController.is_connected
is_connected == connected /\ serial_open

NoEntry == [a \in Aisles |-> 0]

\* __init__ of the controller (lifespan passes settings.vmc_max_retries) and of
\* the facade
Init ==
    /\ life = "new"
    /\ connected = FALSE
    /\ serial_open = FALSE
    /\ running = FALSE
    /\ max_retries \in 1..MaxRetriesCfg
    /\ comm_number = 1
    /\ command_queue = <<>>
    /\ dispense_callbacks = NoEntry
    /\ aisle_status_callbacks = NoEntry
    /\ now = Epoch
    /\ linkpc = "idle"
    /\ linklocal = <<>>
    /\ nsync = 0
    /\ lock = "free"
    /\ pending_dispenses = NoEntry
    /\ pending_status_checks = NoEntry
    /\ cpc = [c \in Callers |-> "idle"]
    /\ ckind = [c \in Callers |-> None]
    /\ caisle = [c \in Callers |-> 0]
    /\ fut = [c \in Callers |-> "none"]
    /\ posted = [c \in Callers |-> <<>>]
    /\ fut_result = [c \in Callers |-> Nothing]
    /\ response = [c \in Callers |-> Nothing]
    /\ nsub = 0
    /\ dropped = {}
    /\ handled = <<>>
    /\ wrote = <<>>
    /\ invoked = <<>>
    /\ tried = 0
    /\ sent = <<>>
    /\ channel = <<>>
    /\ buffer = <<>>
    /\ received = <<>>

\* a step that handles no frame, writes nothing and invokes no callback
Quiet == handled' = <<>> /\ wrote' = <<>> /\ invoked' = <<>> /\ tried' = 0

(* ----------------------- comm numbers and the queue ------------------- *)
\* (mutant) the counter wraps as a byte
NextComm_byte(n) == (n + 1) % 256

\* get_next_comm_number: the value the counter takes
NextComm(n) == (n % 255) + 1

\* the dict queue_command appends
NewCommand(command, text, id) ==
    [ id |-> id,
      writes |-> 0,
      packet |-> create_packet(command, text),
      command |-> command,
      text |-> text,
      retries |-> 0,
      max_retries |-> max_retries,
      waiting_ack |-> FALSE,
      sent_time |-> NoTime,
      callback |-> None,
      callback_key |-> None ]

\* (mutant) the new command is put at the front of the queue
queue_command_front(queue, command, text, id) ==
    <<NewCommand(command, text, id)>> \o queue

\* queue_command: the queue after the append
queue_command(queue, command, text, id) == Append(queue, NewCommand(command, text, id))

\* the ids of the commands in a queue
Ids(queue) == {queue[i].id : i \in 1..Len(queue)}

(* ------------------------------ lifecycle ----------------------------- *)
\* connect(), called by lifespan: serial.Serial(...) opens or raises
Connect(ok) ==
    /\ life = "new"
    /\ connected' = ok
    /\ serial_open' = ok
    /\ life' = IF ok THEN "connected" ELSE "serving"
    /\ Quiet
    /\ UNCHANGED <<running, max_retries, comm_number, command_queue,
                   dispense_callbacks, aisle_status_callbacks, now>>
    /\ UNCHANGED <<link, facade, nsub, dropped, framer>>

\* start(), up to the first sleep: the link thread runs from here on
StartThread ==
    /\ life = "connected"
    /\ serial_open
    /\ running' = TRUE
    /\ life' = "starting"
    /\ Quiet
    /\ UNCHANGED <<connected, serial_open, max_retries, comm_number, command_queue,
                   dispense_callbacks, aisle_status_callbacks, now>>
    /\ UNCHANGED <<link, facade, nsub, dropped, framer>>

\* start(), after the sleep: request_info_sync(), then lifespan's init_services
StartSync ==
    /\ life = "starting"
    /\ comm_number' = NextComm(comm_number)
    /\ command_queue' = queue_command(command_queue, REQUEST_SYNC, <<comm_number>>, nsub + 1)
    /\ nsub' = nsub + 1
    /\ UNCHANGED <<dropped, framer>>
    /\ life' = "serving"
    /\ Quiet
    /\ UNCHANGED <<connected, serial_open, running, max_retries,
                   dispense_callbacks, aisle_status_callbacks, now>>
    /\ UNCHANGED <<link, facade>>

\* (mutant) disconnect() also empties the outbound queue
Disconnect_flush ==
    /\ life = "serving"
    /\ linkpc = "idle"
    /\ running' = FALSE
    /\ serial_open' = FALSE
    /\ connected' = FALSE
    /\ life' = "down"
    /\ command_queue' = <<>>
    /\ Quiet
    /\ UNCHANGED <<max_retries, comm_number,
                   dispense_callbacks, aisle_status_callbacks, now>>
    /\ UNCHANGED <<link, facade, nsub, dropped, framer>>

\* disconnect(): stop() clears running and joins the link thread, then the
\* channel is closed
Disconnect ==
    /\ life = "serving"
    /\ linkpc = "idle"
    /\ running' = FALSE
    /\ serial_open' = FALSE
    /\ connected' = FALSE
    /\ life' = "down"
    /\ Quiet
    /\ UNCHANGED <<max_retries, comm_number, command_queue,
                   dispense_callbacks, aisle_status_callbacks, now>>
    /\ UNCHANGED <<link, facade, nsub, dropped, framer>>

\* time.time() advances.  The clock is read in one place, handle_poll, and only
\* against the sent_time of a head that waits for its ACK, which is the command
\* written last.  So the clock is counted from the last command write (Epoch),
\* and time passing while no head waits, or after the head's timeout has
\* expired, changes no later step and is left out
TimeMatters ==
    /\ command_queue # <<>>
    /\ command_queue[1].waiting_ack
    /\ now - command_queue[1].sent_time <= COMMAND_TIMEOUT

Tick(d) ==
    /\ TimeMatters
    /\ now' = now + d
    /\ Quiet
    /\ UNCHANGED <<life, connected, serial_open, running, max_retries, comm_number,
                   command_queue, dispense_callbacks, aisle_status_callbacks>>
    /\ UNCHANGED <<link, facade, nsub, dropped, framer>>

(* ---------------------------- POLL and ACK ---------------------------- *)
\* (mutant) the ACK frame is written twice
send_ack_twice(ok) ==
    IF ok THEN <<create_packet(ACK, <<>>), create_packet(ACK, <<>>)>> ELSE <<>>

\* send_ack: the frames it puts on the channel (none when the write raises)
send_ack(ok) == IF ok THEN <<create_packet(ACK, <<>>)>> ELSE <<>>

\* (mutant) the elapsed time is computed with its operands swapped
PollTimeoutStep_swapped(queue, t) ==
    IF queue # <<>> /\ queue[1].waiting_ack
    THEN IF queue[1].sent_time - t > COMMAND_TIMEOUT
         THEN IF queue[1].retries + 1 >= queue[1].max_retries
              THEN Tail(queue)
              ELSE <<[queue[1] EXCEPT !.retries = @ + 1, !.waiting_ack = FALSE]>>
                   \o Tail(queue)
         ELSE queue
    ELSE queue

\* (mutant) the retry limit is compared with > instead of >=
PollTimeoutStep_gt(queue, t) ==
    IF queue # <<>> /\ queue[1].waiting_ack
    THEN IF t - queue[1].sent_time > COMMAND_TIMEOUT
         THEN IF queue[1].retries + 1 > queue[1].max_retries
              THEN Tail(queue)
              ELSE <<[queue[1] EXCEPT !.retries = @ + 1, !.waiting_ack = FALSE]>>
                   \o Tail(queue)
         ELSE queue
    ELSE queue

\* handle_poll, first block: a head that waited longer than COMMAND_TIMEOUT is
\* counted, and then dropped or released for a re-send
PollTimeoutStep(queue, t) ==
    IF queue # <<>> /\ queue[1].waiting_ack
    THEN IF t - queue[1].sent_time > COMMAND_TIMEOUT
         THEN IF queue[1].retries + 1 >= queue[1].max_retries
              THEN Tail(queue)
              ELSE <<[queue[1] EXCEPT !.retries = @ + 1, !.waiting_ack = FALSE]>>
                   \o Tail(queue)
         ELSE queue
    ELSE queue

\* handle_poll, first block: the command it pops after the last allowed attempt,
\* when it is the command of a call (check_aisle, dispense, drive_aisle_direct)
PollDiscards(queue, t) ==
    IF /\ Len(PollTimeoutStep(queue, t)) < Len(queue)
       /\ queue[1].command \in {CHECK_AISLE, SELECT_BUY, DRIVE_AISLE_DIRECT}
    THEN {[command |-> queue[1].command, text |-> queue[1].text]}
    ELSE {}

\* (mutant) the head is written whether or not it waits for its ACK
PollSendsHead_nonempty(queue) == queue # <<>>

\* handle_poll, second block: does it write the head command (rather than an ACK)
PollSendsHead(queue) == queue # <<>> /\ ~queue[1].waiting_ack

\* (mutant) the last command of the queue is marked instead of the head
PollMarkSent_last(queue, t) ==
    SubSeq(queue, 1, Len(queue) - 1)
    \o <<[queue[Len(queue)] EXCEPT !.waiting_ack = TRUE, !.sent_time = t,
                                   !.writes = @ + 1]>>

\* handle_poll, second block: the queue after a successful write of the head
PollMarkSent(queue, t) ==
    <<[queue[1] EXCEPT !.waiting_ack = TRUE, !.sent_time = t, !.writes = @ + 1]>>
    \o Tail(queue)

\* the clock after a step of the link thread: it is counted from the last command
\* write, and it is not read again before the next one once no head waits
Rebased(queue, t) == IF queue # <<>> /\ queue[1].waiting_ack THEN t ELSE Epoch

\* (mutant) a write of the head command that raises counts as an attempt
RecvPoll_counts(ok) ==
    /\ running
    /\ linkpc = "idle"
    /\ LET q1 == PollTimeoutStep(command_queue, now)
       IN  IF PollSendsHead(q1)
           THEN /\ command_queue' = IF ok THEN PollMarkSent(q1, Epoch)
                                    ELSE <<[q1[1] EXCEPT !.retries = @ + 1]>> \o Tail(q1)
                /\ now' = Epoch
                /\ wrote' = IF ok THEN <<q1[1].packet>> ELSE <<>>
           ELSE /\ command_queue' = q1
                /\ now' = Rebased(q1, now)
                /\ wrote' = send_ack(ok)
    /\ dropped' = dropped \cup PollDiscards(command_queue, now)
    /\ UNCHANGED framer
    /\ handled' = <<POLL>>
    /\ tried' = 1
    /\ invoked' = <<>>
    /\ UNCHANGED <<life, connected, serial_open, running, max_retries, comm_number,
                   dispense_callbacks, aisle_status_callbacks>>
    /\ UNCHANGED <<link, facade, nsub>>

\* handle_received_packet(POLL): handle_poll; the write of the head raises or not
RecvPoll(ok) ==
    /\ running
    /\ linkpc = "idle"
    /\ LET q1 == PollTimeoutStep(command_queue, now)
       IN  IF PollSendsHead(q1)
           THEN /\ command_queue' = IF ok THEN PollMarkSent(q1, Epoch) ELSE q1
                /\ now' = Epoch
                /\ wrote' = IF ok THEN <<q1[1].packet>> ELSE <<>>
           ELSE /\ command_queue' = q1
                /\ now' = Rebased(q1, now)
                /\ wrote' = send_ack(ok)
    /\ dropped' = dropped \cup PollDiscards(command_queue, now)
    /\ UNCHANGED framer
    /\ handled' = <<POLL>>
    /\ tried' = 1
    /\ invoked' = <<>>
    /\ UNCHANGED <<life, connected, serial_open, running, max_retries, comm_number,
                   dispense_callbacks, aisle_status_callbacks>>
    /\ UNCHANGED <<link, facade, nsub>>

\* (mutant) the head is removed whether or not it was sent
AckStep_any(queue) == IF queue # <<>> THEN Tail(queue) ELSE queue

\* handle_received_packet(ACK): the queue after it
AckStep(queue) ==
    IF queue # <<>> /\ queue[1].waiting_ack THEN Tail(queue) ELSE queue

RecvAck ==
    /\ running
    /\ linkpc = "idle"
    /\ command_queue' = AckStep(command_queue)
    /\ now' = Rebased(command_queue', now)
    /\ handled' = <<ACK>>
    /\ tried' = 0
    /\ wrote' = <<>>
    /\ invoked' = <<>>
    /\ UNCHANGED <<life, connected, serial_open, running, max_retries, comm_number,
                   dispense_callbacks, aisle_status_callbacks>>
    /\ UNCHANGED <<link, facade, nsub, dropped, framer>>

(* ------------------------ frames with a payload ----------------------- *)
\* texts of DISPENSING_STATUS / AISLE_STATUS_RESPONSE frames: comm_num, status,
\* aisle (u16 big-endian): every status for the aisles callers use, one for an
\* aisle no caller uses, one with another echoed comm_num, one cut short
StatusTexts ==
    {<<1, s>> \o PackH(a) : s \in StatusCodes, a \in UsedAisles}
    \cup {<<1, 2>> \o PackH(UnusedAisle), <<9, 2>> \o PackH(1), <<1, 2, 0>>}

\* aisle_num in self.dispense_callbacks (a dict: here 0 stands for no entry)
InTable(table, aisle_num) == aisle_num \in DOMAIN table /\ table[aisle_num] # 0

\* dict.pop(aisle_num)
Pop(table, aisle_num) ==
    IF aisle_num \in DOMAIN table THEN [table EXCEPT ![aisle_num] = 0] ELSE table

\* (mutant) the JAMMED entry is missing from status_messages
DispenseResultFor_nojam(status, aisle_num) ==
    IF status = "SUCCESS"
    THEN [success |-> TRUE, aisle_number |-> aisle_num, status |-> status,
          message |-> "Dispense successful"]
    ELSE [success |-> FALSE, aisle_number |-> aisle_num, status |-> status,
          message |-> CASE status = "MOTOR_DOESNT_STOP" -> "Motor error - doesn't stop"
                        [] status = "MOTOR_DOESNT_EXIST" -> "Motor not found"
                        [] OTHER -> "Unknown error"]

\* handle_dispensing_status: the DispenseResult built for a status that is not
\* DISPENSING
DispenseResultFor(status, aisle_num) ==
    IF status = "SUCCESS"
    THEN [success |-> TRUE, aisle_number |-> aisle_num, status |-> status,
          message |-> "Dispense successful"]
    ELSE [success |-> FALSE, aisle_number |-> aisle_num, status |-> status,
          message |-> CASE status = "JAMMED" -> "Product jammed"
                        [] status = "MOTOR_DOESNT_STOP" -> "Motor error - doesn't stop"
                        [] status = "MOTOR_DOESNT_EXIST" -> "Motor not found"
                        [] OTHER -> "Unknown error"]

\* (mutant) the DISPENSING branch is missing: every status is terminal
IsRearm_never(status) == FALSE

\* handle_dispensing_status: does this status re-arm the callback instead of
\* invoking it
IsRearm(status) == status # "SUCCESS" /\ status = "DISPENSING"

\* on_dispense_result / on_status_result: future.set_result is scheduled on the
\* loop unless the future is done (a cancelled future is done)
Post(p, c, value) ==
    IF fut[c] = "pending" THEN [p EXCEPT ![c] = Append(@, value)] ELSE p

\* handle_received_packet(DISPENSING_STATUS): handle_dispensing_status, then
\* send_ack; on DISPENSING the handler stops between the pop and the re-insert
RecvDispensingStatus(text, ok) ==
    /\ running
    /\ linkpc = "idle"
    /\ handled' = <<DISPENSING_STATUS>>
    /\ IF Len(text) >= 4 /\ InTable(dispense_callbacks, UnpackH(text))
       THEN LET aisle_num == UnpackH(text)
                status == DispensingStatus(text[2])
                callback == dispense_callbacks[aisle_num]
            IN  /\ dispense_callbacks' = Pop(dispense_callbacks, aisle_num)
                /\ IF IsRearm(status)
                   THEN /\ linkpc' = "rearm"
                        /\ linklocal' = <<aisle_num, callback>>
                        /\ wrote' = <<>>
                        /\ invoked' = <<>>
                        /\ posted' = posted
                   ELSE /\ invoked' = <<<<callback, DispenseResultFor(status, aisle_num)>>>>
                        /\ posted' = Post(posted, callback, DispenseResultFor(status, aisle_num))
                        /\ wrote' = send_ack(ok)
                        /\ UNCHANGED <<linkpc, linklocal>>
       ELSE /\ wrote' = send_ack(ok)
            /\ invoked' = <<>>
            /\ UNCHANGED <<dispense_callbacks, posted, linkpc, linklocal>>
    /\ tried' = IF linkpc' = "rearm" THEN 0 ELSE 1
    /\ UNCHANGED <<life, connected, serial_open, running, max_retries, comm_number,
                   command_queue, aisle_status_callbacks, now>>
    /\ UNCHANGED <<nsync, lock, nsub, dropped, framer>>
    /\ UNCHANGED <<pending_dispenses, pending_status_checks, cpc, ckind, caisle,
                   fut, fut_result, response>>

\* handle_dispensing_status on DISPENSING: the table after the popped callback is
\* put back
Rearm(table, aisle_num, callback) == [table EXCEPT ![aisle_num] = callback]

\* the rest of the DISPENSING branch: re-insert, return, send_ack
RearmFinish(ok) ==
    /\ linkpc = "rearm"
    /\ dispense_callbacks' = Rearm(dispense_callbacks, linklocal[1], linklocal[2])
    /\ linkpc' = "idle"
    /\ linklocal' = <<>>
    /\ handled' = <<DISPENSING_STATUS>>
    /\ tried' = 1
    /\ wrote' = send_ack(ok)
    /\ invoked' = <<>>
    /\ UNCHANGED <<life, connected, serial_open, running, max_retries, comm_number,
                   command_queue, aisle_status_callbacks, now>>
    /\ UNCHANGED <<nsync, lock, facade, nsub, dropped, framer>>

\* handle_received_packet(AISLE_STATUS_RESPONSE): handle_aisle_status_response,
\* then send_ack
RecvAisleStatusResponse(text, ok) ==
    /\ running
    /\ linkpc = "idle"
    /\ handled' = <<AISLE_STATUS_RESPONSE>>
    /\ tried' = 1
    /\ wrote' = send_ack(ok)
    /\ IF Len(text) >= 4 /\ InTable(aisle_status_callbacks, UnpackH(text))
       THEN LET aisle_num == UnpackH(text)
                status == AisleStatus(text[2])
                callback == aisle_status_callbacks[aisle_num]
                value == [aisle_num |-> aisle_num, status |-> status]
            IN  /\ aisle_status_callbacks' = Pop(aisle_status_callbacks, aisle_num)
                /\ invoked' = <<<<callback, value>>>>
                /\ posted' = Post(posted, callback, value)
       ELSE /\ invoked' = <<>>
            /\ UNCHANGED <<aisle_status_callbacks, posted>>
    /\ UNCHANGED <<life, connected, serial_open, running, max_retries, comm_number,
                   command_queue, dispense_callbacks, now>>
    /\ UNCHANGED <<link, nsub, dropped, framer>>
    /\ UNCHANGED <<pending_dispenses, pending_status_checks, cpc, ckind, caisle,
                   fut, fut_result, response>>

\* handle_received_packet(REQUEST_SYNC): send_ack, then request_info_sync up to
\* the read of self.comm_number in get_next_comm_number
RecvRequestSync(ok) ==
    /\ running
    /\ linkpc = "idle"
    /\ nsync < MaxSync
    /\ nsync' = nsync + 1
    /\ handled' = <<REQUEST_SYNC>>
    /\ tried' = 1
    /\ wrote' = send_ack(ok)
    /\ invoked' = <<>>
    /\ linkpc' = "sync"
    /\ linklocal' = <<comm_number>>
    /\ UNCHANGED <<lock, engine, facade, nsub, dropped, framer>>

\* (mutant) request_info_sync writes its frame to the channel itself
SyncFinish_writes ==
    /\ linkpc = "sync"
    /\ comm_number' = NextComm(comm_number)
    /\ wrote' = <<create_packet(REQUEST_SYNC, <<linklocal[1]>>)>>
    /\ linkpc' = "idle"
    /\ linklocal' = <<>>
    /\ handled' = <<REQUEST_SYNC>>
    /\ tried' = 1
    /\ invoked' = <<>>
    /\ UNCHANGED <<life, connected, serial_open, running, max_retries, command_queue,
                   dispense_callbacks, aisle_status_callbacks, now>>
    /\ UNCHANGED <<nsync, lock, nsub, dropped, framer, facade>>

\* the rest of request_info_sync: the counter is advanced from its current value,
\* and the value read before is queued
SyncFinish ==
    /\ linkpc = "sync"
    /\ comm_number' = NextComm(comm_number)
    /\ command_queue' = queue_command(command_queue, REQUEST_SYNC, <<linklocal[1]>>, nsub + 1)
    /\ nsub' = nsub + 1
    /\ UNCHANGED <<dropped, framer>>
    /\ linkpc' = "idle"
    /\ linklocal' = <<>>
    /\ handled' = <<REQUEST_SYNC>>
    /\ tried' = 0
    /\ wrote' = <<>>
    /\ invoked' = <<>>
    /\ UNCHANGED <<life, connected, serial_open, running, max_retries,
                   dispense_callbacks, aisle_status_callbacks, now>>
    /\ UNCHANGED <<nsync, lock, facade>>

\* frames that are only acknowledged (AISLE_INFO, MACHINE_STATUS_RESPONSE,
\* POS_DISPLAY and the final else all run the same send_ack)
OtherCommands == {AISLE_INFO}

RecvOther(command, ok) ==
    /\ running
    /\ linkpc = "idle"
    /\ handled' = <<command>>
    /\ tried' = 1
    /\ wrote' = send_ack(ok)
    /\ invoked' = <<>>
    /\ UNCHANGED <<engine, link, facade, nsub, dropped, framer>>

(* ------------------------------- facade ------------------------------- *)
\* DispenseService exists once lifespan has called init_services
FacadeUp == life \in {"serving", "down"}

\* the aisles call number c may be for
CallAisles(c) == {a \in UsedAisles : a <= c}

CanCall(c) == cpc[c] = "idle" /\ (IF c = 1 THEN TRUE ELSE cpc[c - 1] # "idle")

\* (mutant) MOTOR_DOESNT_EXIST is missing from the mapping
map_dispense_status_nomotor(status) ==
    CASE status = "DISPENSING" -> "dispensing"
      [] status = "SUCCESS" -> "success"
      [] status = "JAMMED" -> "jammed"
      [] status = "MOTOR_DOESNT_STOP" -> "motor_error"
      [] OTHER -> "failed"

\* DispenseService._map_dispense_status
map_dispense_status(status) ==
    CASE status = "DISPENSING" -> "dispensing"
      [] status = "SUCCESS" -> "success"
      [] status = "JAMMED" -> "jammed"
      [] status = "MOTOR_DOESNT_STOP" -> "motor_error"
      [] status = "MOTOR_DOESNT_EXIST" -> "not_found"
      [] OTHER -> "failed"

\* (mutant) PAUSED is missing from the mapping
map_aisle_status_nopause(status) ==
    CASE status = "NORMAL" -> "normal"
      [] status = "OUT_OF_STOCK" -> "out_of_stock"
      [] status = "DOESNT_EXIST" -> "not_exist"
      [] OTHER -> "not_exist"

\* DispenseService._map_aisle_status
map_aisle_status(status) ==
    CASE status = "NORMAL" -> "normal"
      [] status = "OUT_OF_STOCK" -> "out_of_stock"
      [] status = "DOESNT_EXIST" -> "not_exist"
      [] status = "PAUSED" -> "paused"
      [] OTHER -> "not_exist"

\* check_aisle_status: status_messages.get(status, "Unknown status")
aisle_status_message(status) ==
    CASE status = "NORMAL" -> "Aisle is ready"
      [] status = "OUT_OF_STOCK" -> "Aisle is out of stock"
      [] status = "DOESNT_EXIST" -> "Aisle does not exist"
      [] status = "PAUSED" -> "Aisle is paused"
      [] OTHER -> "Unknown status"

\* the text of the command a dispense queues: SELECT_BUY, or DRIVE_AISLE_DIRECT
\* with the request's default use_drop_sensor = True, use_elevator = False
DispenseCommand(force) == IF force THEN DRIVE_AISLE_DIRECT ELSE SELECT_BUY
DispenseText(force, comm_num, aisle_number) ==
    IF force THEN <<comm_num, 1, 0>> \o PackH(aisle_number)
    ELSE <<comm_num>> \o PackH(aisle_number)

\* dispense(), is_connected false: the early return
DispenseNotConnected(c, a) ==
    /\ FacadeUp
    /\ CanCall(c)
    /\ ~is_connected
    /\ cpc' = [cpc EXCEPT ![c] = "returned"]
    /\ ckind' = [ckind EXCEPT ![c] = "dispense"]
    /\ caisle' = [caisle EXCEPT ![c] = a]
    /\ response' = [response EXCEPT ![c] =
           Some([success |-> FALSE, aisle_number |-> a, status |-> "failed",
                 message |-> "VMC not connected"])]
    /\ Quiet
    /\ UNCHANGED <<engine, link, nsub, dropped, framer>>
    /\ UNCHANGED <<pending_dispenses, pending_status_checks, fut, posted, fut_result>>

\* (mutant) the entry is stored under every aisle number
Register_all(table, a, c) == [x \in DOMAIN table |-> c]

\* the table after self._pending_dispenses[aisle] = future and after
\* self.dispense_callbacks[aisle] = callback (the future and the callback of call c)
Register(table, a, c) == [table EXCEPT ![a] = c]

\* dispense(), connected: the future is registered, controller.dispense or
\* drive_aisle_direct takes a comm number, registers the callback and queues the
\* command; the call then waits in asyncio.wait_for
Dispense(c, a, force) ==
    /\ FacadeUp
    /\ CanCall(c)
    /\ is_connected
    /\ fut' = [fut EXCEPT ![c] = "pending"]
    /\ pending_dispenses' = Register(pending_dispenses, a, c)
    /\ comm_number' = NextComm(comm_number)
    /\ dispense_callbacks' = Register(dispense_callbacks, a, c)
    /\ command_queue' = queue_command(command_queue, DispenseCommand(force),
                                      DispenseText(force, comm_number, a), nsub + 1)
    /\ nsub' = nsub + 1
    /\ UNCHANGED <<dropped, framer>>
    /\ cpc' = [cpc EXCEPT ![c] = "waiting"]
    /\ ckind' = [ckind EXCEPT ![c] = "dispense"]
    /\ caisle' = [caisle EXCEPT ![c] = a]
    /\ Quiet
    /\ UNCHANGED <<life, connected, serial_open, running, max_retries,
                   aisle_status_callbacks, now>>
    /\ UNCHANGED <<link, pending_status_checks, posted, fut_result, response>>

\* dispense() with an aisle number struct.pack(">H", .) rejects: the comm number is
\* taken, struct.error is caught by "except Exception", and the finally block pops
\* the entry registered under that aisle
DispenseError(c) ==
    /\ FacadeUp
    /\ CanCall(c)
    /\ is_connected
    /\ fut' = [fut EXCEPT ![c] = "pending"]
    /\ comm_number' = NextComm(comm_number)
    /\ cpc' = [cpc EXCEPT ![c] = "returned"]
    /\ ckind' = [ckind EXCEPT ![c] = "dispense"]
    /\ caisle' = [caisle EXCEPT ![c] = BigAisle]
    /\ response' = [response EXCEPT ![c] =
           Some([success |-> FALSE, aisle_number |-> BigAisle, status |-> "failed",
                 message |-> "struct.error"])]
    /\ Quiet
    /\ UNCHANGED <<life, connected, serial_open, running, max_retries, command_queue,
                   dispense_callbacks, aisle_status_callbacks, now>>
    /\ UNCHANGED <<link, nsub, dropped, framer>>
    /\ UNCHANGED <<pending_dispenses, pending_status_checks, posted, fut_result>>

\* check_aisle_status(), is_connected false
CheckNotConnected(c, a) ==
    /\ FacadeUp
    /\ CanCall(c)
    /\ ~is_connected
    /\ cpc' = [cpc EXCEPT ![c] = "returned"]
    /\ ckind' = [ckind EXCEPT ![c] = "check"]
    /\ caisle' = [caisle EXCEPT ![c] = a]
    /\ response' = [response EXCEPT ![c] =
           Some([aisle_number |-> a, status |-> "not_exist",
                 message |-> "VMC not connected"])]
    /\ Quiet
    /\ UNCHANGED <<engine, link, nsub, dropped, framer>>
    /\ UNCHANGED <<pending_dispenses, pending_status_checks, fut, posted, fut_result>>

\* check_aisle_status(), connected: as dispense, with controller.check_aisle
CheckAisle(c, a) ==
    /\ FacadeUp
    /\ CanCall(c)
    /\ is_connected
    /\ fut' = [fut EXCEPT ![c] = "pending"]
    /\ pending_status_checks' = Register(pending_status_checks, a, c)
    /\ comm_number' = NextComm(comm_number)
    /\ aisle_status_callbacks' = Register(aisle_status_callbacks, a, c)
    /\ command_queue' = queue_command(command_queue, CHECK_AISLE,
                                      <<comm_number>> \o PackH(a), nsub + 1)
    /\ nsub' = nsub + 1
    /\ UNCHANGED <<dropped, framer>>
    /\ cpc' = [cpc EXCEPT ![c] = "waiting"]
    /\ ckind' = [ckind EXCEPT ![c] = "check"]
    /\ caisle' = [caisle EXCEPT ![c] = a]
    /\ Quiet
    /\ UNCHANGED <<life, connected, serial_open, running, max_retries,
                   dispense_callbacks, now>>
    /\ UNCHANGED <<link, pending_dispenses, posted, fut_result, response>>

\* check_aisle_status() with an aisle number struct.pack(">H", .) rejects: as
\* dispense(), the error is caught and returned as the message
CheckError(c) ==
    /\ FacadeUp
    /\ CanCall(c)
    /\ is_connected
    /\ fut' = [fut EXCEPT ![c] = "pending"]
    /\ comm_number' = NextComm(comm_number)
    /\ cpc' = [cpc EXCEPT ![c] = "returned"]
    /\ ckind' = [ckind EXCEPT ![c] = "check"]
    /\ caisle' = [caisle EXCEPT ![c] = BigAisle]
    /\ response' = [response EXCEPT ![c] =
           Some([aisle_number |-> BigAisle, status |-> "not_exist",
                 message |-> "struct.error"])]
    /\ Quiet
    /\ UNCHANGED <<life, connected, serial_open, running, max_retries, command_queue,
                   dispense_callbacks, aisle_status_callbacks, now>>
    /\ UNCHANGED <<link, nsub, dropped, framer>>
    /\ UNCHANGED <<pending_dispenses, pending_status_checks, posted, fut_result>>

\* the loop runs a scheduled future.set_result(value); on a future that is no
\* longer pending it raises InvalidStateError inside the loop and stores nothing
LoopSetResult(c) ==
    /\ posted[c] # <<>>
    /\ posted' = [posted EXCEPT ![c] = Tail(@)]
    /\ IF fut[c] = "pending"
       THEN /\ fut' = [fut EXCEPT ![c] = "done"]
            /\ fut_result' = [fut_result EXCEPT ![c] = Some(Head(posted[c]))]
       ELSE UNCHANGED <<fut, fut_result>>
    /\ Quiet
    /\ UNCHANGED <<engine, link, nsub, dropped, framer>>
    /\ UNCHANGED <<pending_dispenses, pending_status_checks, cpc, ckind, caisle, response>>

\* the response built from the future's result
ResultResponse(kind, result) ==
    IF kind = "dispense"
    THEN [success |-> result.success, aisle_number |-> result.aisle_number,
          status |-> map_dispense_status(result.status), message |-> result.message]
    ELSE [aisle_number |-> result.aisle_num, status |-> map_aisle_status(result.status),
          message |-> aisle_status_message(result.status)]

\* (mutant) the timeout response reports the failed command
TimeoutResponse_retries(kind, a) ==
    IF kind = "dispense"
    THEN [success |-> FALSE, aisle_number |-> a, status |-> "failed",
          message |-> "Command failed after retries"]
    ELSE [aisle_number |-> a, status |-> "not_exist",
          message |-> "Command failed after retries"]

\* the response built in "except asyncio.TimeoutError"
TimeoutResponse(kind, a) ==
    IF kind = "dispense"
    THEN [success |-> FALSE, aisle_number |-> a, status |-> "failed",
          message |-> "Operation timed out"]
    ELSE [aisle_number |-> a, status |-> "not_exist", message |-> "Status check timed out"]

\* the finally block: self._pending_dispenses.pop(aisle, None), or the same on
\* self._pending_status_checks
FinallyPop(c) ==
    IF ckind[c] = "dispense"
    THEN /\ pending_dispenses' = Pop(pending_dispenses, caisle[c])
         /\ UNCHANGED pending_status_checks
    ELSE /\ pending_status_checks' = Pop(pending_status_checks, caisle[c])
         /\ UNCHANGED pending_dispenses

\* wait_for returns the future's result: the call returns its response
Return(c) ==
    /\ cpc[c] = "waiting"
    /\ fut[c] = "done"
    /\ response' = [response EXCEPT ![c] = Some(ResultResponse(ckind[c], fut_result[c][1]))]
    /\ cpc' = [cpc EXCEPT ![c] = "returned"]
    /\ FinallyPop(c)
    /\ Quiet
    /\ UNCHANGED <<engine, link, nsub, dropped, framer>>
    /\ UNCHANGED <<ckind, caisle, fut, posted, fut_result>>

\* (mutant) asyncio.TimeoutError is not caught: the call ends without a response
Timeout_raises(c) ==
    /\ cpc[c] = "waiting"
    /\ fut[c] = "pending"
    /\ fut' = [fut EXCEPT ![c] = "cancelled"]
    /\ cpc' = [cpc EXCEPT ![c] = "returned"]
    /\ FinallyPop(c)
    /\ Quiet
    /\ UNCHANGED <<engine, link, nsub, dropped, framer>>
    /\ UNCHANGED <<ckind, caisle, posted, fut_result, response>>

\* wait_for times out: it cancels the future and raises TimeoutError
Timeout(c) ==
    /\ cpc[c] = "waiting"
    /\ fut[c] = "pending"
    /\ fut' = [fut EXCEPT ![c] = "cancelled"]
    /\ response' = [response EXCEPT ![c] = Some(TimeoutResponse(ckind[c], caisle[c]))]
    /\ cpc' = [cpc EXCEPT ![c] = "returned"]
    /\ FinallyPop(c)
    /\ Quiet
    /\ UNCHANGED <<engine, link, nsub, dropped, framer>>
    /\ UNCHANGED <<ckind, caisle, posted, fut_result>>

(* ---------------------------- specification --------------------------- *)
Next ==
    \/ \E ok \in BOOLEAN : Connect(ok)
    \/ StartThread
    \/ StartSync
    \/ Disconnect
    \/ Tick(1)
    \/ \E ok \in BOOLEAN : RecvPoll(ok)
    \/ RecvAck
    \/ \E text \in StatusTexts, ok \in BOOLEAN : RecvDispensingStatus(text, ok)
    \/ \E ok \in BOOLEAN : RearmFinish(ok)
    \/ \E text \in StatusTexts, ok \in BOOLEAN : RecvAisleStatusResponse(text, ok)
    \/ \E ok \in BOOLEAN : RecvRequestSync(ok)
    \/ SyncFinish
    \/ \E command \in OtherCommands, ok \in BOOLEAN : RecvOther(command, ok)
    \/ \E c \in Callers : \E a \in CallAisles(c) : DispenseNotConnected(c, a)
    \/ \E c \in Callers : \E a \in CallAisles(c), force \in BOOLEAN : Dispense(c, a, force)
    \/ \E c \in Callers : DispenseError(c)
    \/ \E c \in Callers : \E a \in CallAisles(c) : CheckNotConnected(c, a)
    \/ \E c \in Callers : \E a \in CallAisles(c) : CheckAisle(c, a)
    \/ \E c \in Callers : CheckError(c)
    \/ \E c \in Callers : LoopSetResult(c)
    \/ \E c \in Callers : Return(c)
    \/ \E c \in Callers : Timeout(c)

Spec == Init /\ [][Next]_vars

\* the event loop keeps running: a call that waits in asyncio.wait_for is resumed
\* when its future is done, or else when its timeout expires
SpecLive == Spec /\ \A c \in Callers : WF_vars(Return(c) \/ Timeout(c))

(* ------------------- two calls for the same aisle --------------------- *)
\* two calls, one after the other or overlapping, both for aisle 1, on a
\* controller that connects and whose writes succeed
PairCallers == {1, 2}
PairAisle == 1

\* the status texts for that aisle: codes 1 and 2 (DISPENSING and SUCCESS in a
\* DISPENSING_STATUS, NORMAL and OUT_OF_STOCK in an AISLE_STATUS_RESPONSE)
PairTexts == {<<1, 1>> \o PackH(PairAisle), <<1, 2>> \o PackH(PairAisle)}

\* __init__ of the controller and of the facade, before two calls
InitPair ==
    /\ life = "new"
    /\ connected = FALSE
    /\ serial_open = FALSE
    /\ running = FALSE
    /\ max_retries \in 1..MaxRetriesCfg
    /\ comm_number = 1
    /\ command_queue = <<>>
    /\ dispense_callbacks = NoEntry
    /\ aisle_status_callbacks = NoEntry
    /\ now = Epoch
    /\ linkpc = "idle"
    /\ linklocal = <<>>
    /\ nsync = 0
    /\ lock = "free"
    /\ pending_dispenses = NoEntry
    /\ pending_status_checks = NoEntry
    /\ cpc = [c \in PairCallers |-> "idle"]
    /\ ckind = [c \in PairCallers |-> None]
    /\ caisle = [c \in PairCallers |-> 0]
    /\ fut = [c \in PairCallers |-> "none"]
    /\ posted = [c \in PairCallers |-> <<>>]
    /\ fut_result = [c \in PairCallers |-> Nothing]
    /\ response = [c \in PairCallers |-> Nothing]
    /\ nsub = 0
    /\ dropped = {}
    /\ handled = <<>>
    /\ wrote = <<>>
    /\ invoked = <<>>
    /\ tried = 0
    /\ sent = <<>>
    /\ channel = <<>>
    /\ buffer = <<>>
    /\ received = <<>>

NextPair ==
    \/ Connect(TRUE)
    \/ StartThread
    \/ StartSync
    \/ Tick(1)
    \/ RecvPoll(TRUE)
    \/ RecvAck
    \/ \E text \in PairTexts : RecvDispensingStatus(text, TRUE)
    \/ RearmFinish(TRUE)
    \/ \E text \in PairTexts : RecvAisleStatusResponse(text, TRUE)
    \/ \E c \in PairCallers : Dispense(c, PairAisle, FALSE)
    \/ \E c \in PairCallers : CheckAisle(c, PairAisle)
    \/ \E c \in PairCallers : LoopSetResult(c)
    \/ \E c \in PairCallers : Return(c)
    \/ \E c \in PairCallers : Timeout(c)

SpecPair == InitPair /\ [][NextPair]_vars

(* -------------------- the comm number generator alone ----------------- *)
\* get_next_comm_number, called again and again as request_info_sync calls it:
\* the link thread's comm_num is the value returned, and nsync counts the calls
GetNextCommNumber ==
    /\ nsync < MaxCommCalls
    /\ nsync' = nsync + 1
    /\ linklocal' = <<comm_number>>
    /\ comm_number' = NextComm(comm_number)
    /\ UNCHANGED <<life, connected, serial_open, running, max_retries, command_queue,
                   dispense_callbacks, aisle_status_callbacks, now>>
    /\ UNCHANGED <<linkpc, lock, facade, obs, framer>>

NextComm1 == GetNextCommNumber

SpecComm == Init /\ [][NextComm1]_vars

(* ------------------------ encode and decode alone --------------------- *)
\* the texts encoded: empty, one byte, two and three bytes, and 255 bytes
LongText == [i \in 1..255 |-> i]
CodecTexts == {<<>>, <<0>>, <<67>>, <<250, 251>>, <<1, 0, 1>>, LongText}

\* the longest frame of which single bytes are altered
MaxAlterLen == 8
\* the values a byte is changed to
AlterValues == {0, 1, 2, 3, 66, 67, 250, 251, 255}

\* the VMC encodes one frame onto the channel
InitCodec ==
    /\ life = "new"
    /\ connected = FALSE
    /\ serial_open = FALSE
    /\ running = FALSE
    /\ max_retries = 1
    /\ comm_number = 1
    /\ command_queue = <<>>
    /\ dispense_callbacks = NoEntry
    /\ aisle_status_callbacks = NoEntry
    /\ now = Epoch
    /\ linkpc = "idle"
    /\ linklocal = <<>>
    /\ nsync = 0
    /\ lock = "free"
    /\ pending_dispenses = NoEntry
    /\ pending_status_checks = NoEntry
    /\ cpc = [c \in Callers |-> "idle"]
    /\ ckind = [c \in Callers |-> None]
    /\ caisle = [c \in Callers |-> 0]
    /\ fut = [c \in Callers |-> "none"]
    /\ posted = [c \in Callers |-> <<>>]
    /\ fut_result = [c \in Callers |-> Nothing]
    /\ response = [c \in Callers |-> Nothing]
    /\ nsub = 0
    /\ dropped = {}
    /\ handled = <<>>
    /\ wrote = <<>>
    /\ invoked = <<>>
    /\ tried = 0
    /\ \E command \in CommandValues, text \in CodecTexts :
          /\ sent = <<[command |-> command, text |-> text]>>
          /\ channel = create_packet(command, text)
    /\ buffer = <<>>
    /\ received = <<>>

\* one byte of the frame changes on the channel
Alter(i, v) ==
    /\ received = <<>>
    /\ buffer = <<>>
    /\ Len(channel) <= MaxAlterLen
    /\ channel = create_packet(sent[1].command, sent[1].text)
    /\ i \in 1..Len(channel)
    /\ v # channel[i]
    /\ channel' = [channel EXCEPT ![i] = v]
    /\ UNCHANGED <<engine, link, facade, obs, sent, buffer, received>>

\* parse_packet is applied to the bytes of the channel
Parse ==
    /\ channel # <<>>
    /\ buffer' = channel
    /\ channel' = <<>>
    /\ received' = parse_packet(channel)
    /\ UNCHANGED <<engine, link, facade, obs, sent>>

NextCodec ==
    \/ \E i \in 1..MaxAlterLen, v \in AlterValues : Alter(i, v)
    \/ Parse

SpecCodec == InitCodec /\ [][NextCodec]_vars

(* --------------------------- the byte stream -------------------------- *)
\* the controller and the facade as constructed, for the specifications of the
\* byte stream
Constructed ==
    /\ life = "new"
    /\ connected = FALSE
    /\ serial_open = FALSE
    /\ running = FALSE
    /\ max_retries = 1
    /\ comm_number = 1
    /\ command_queue = <<>>
    /\ dispense_callbacks = NoEntry
    /\ aisle_status_callbacks = NoEntry
    /\ now = Epoch
    /\ linkpc = "idle"
    /\ linklocal = <<>>
    /\ nsync = 0
    /\ lock = "free"
    /\ pending_dispenses = NoEntry
    /\ pending_status_checks = NoEntry
    /\ cpc = [c \in Callers |-> "idle"]
    /\ ckind = [c \in Callers |-> None]
    /\ caisle = [c \in Callers |-> 0]
    /\ fut = [c \in Callers |-> "none"]
    /\ posted = [c \in Callers |-> <<>>]
    /\ fut_result = [c \in Callers |-> Nothing]
    /\ response = [c \in Callers |-> Nothing]
    /\ nsub = 0
    /\ dropped = {}
    /\ handled = <<>>
    /\ wrote = <<>>
    /\ invoked = <<>>
    /\ tried = 0

\* the frames the VMC sends in these specifications
StreamFrames ==
    {[command |-> POLL, text |-> <<>>],
     [command |-> ACK, text |-> <<>>],
     [command |-> DISPENSING_STATUS, text |-> <<1, 2, 0, 1>>]}

\* line noise before a frame: bytes that hold no STX
GarbagePrefixes ==
    {<<0>>, <<251, 250>>, <<0, 0, 0>>, <<0, 0, 0, 0>>, <<7, 250, 250>>,
     <<0, 1, 2, 3, 4>>, <<250, 0, 251, 0, 65, 0>>}

\* noise, then one frame, on the channel
InitGarbage ==
    /\ Constructed
    /\ \E g \in GarbagePrefixes, f \in StreamFrames :
          /\ sent = <<f>>
          /\ channel = g \o create_packet(f.command, f.text)
    /\ buffer = <<>>
    /\ received = <<>>

\* listen_loop, one iteration with bytes waiting: serial.read returns the first n
\* bytes of the channel, they are appended to the buffer, and the inner loop runs
ReadChannel(n) ==
    /\ n \in 1..Len(channel)
    /\ channel' = SubSeq(channel, n + 1, Len(channel))
    /\ buffer' = Drain(buffer \o SubSeq(channel, 1, n), <<>>)[1]
    /\ received' = received \o Drain(buffer \o SubSeq(channel, 1, n), <<>>)[2]
    /\ UNCHANGED <<engine, link, facade, obs, sent>>

\* the longest read
MaxRead == 16

NextStream == \E n \in 1..MaxRead : ReadChannel(n)

SpecGarbage == InitGarbage /\ [][NextStream]_vars

\* the largest amount by which a length byte is raised
MaxRaise == 9

\* frame f with its length byte raised by k
RaisedLength(f, k) == [create_packet(f.command, f.text) EXCEPT ![4] = @ + k]

\* a frame whose length byte was raised on the way, so that the candidate frame
\* reaches into the valid frame that follows it and fails its checksum
InitResync ==
    /\ Constructed
    /\ \E f \in StreamFrames, g \in StreamFrames, k \in 1..MaxRaise :
          /\ k <= Len(create_packet(g.command, g.text))
          /\ parse_packet(SubSeq(RaisedLength(f, k) \o create_packet(g.command, g.text),
                                 1, 5 + Len(f.text) + k)) = Nothing
          /\ sent = <<g>>
          /\ channel = RaisedLength(f, k) \o create_packet(g.command, g.text)
    /\ buffer = <<>>
    /\ received = <<>>

SpecResync == InitResync /\ [][NextStream]_vars

\* the valid frames of the specification of frame order; their texts hold STX,
\* a length byte and a command byte, and one text is empty
OrderFrames ==
    {[command |-> POLL, text |-> <<>>],
     [command |-> DISPENSING_STATUS, text |-> <<1, 2, 0, 1>>],
     [command |-> AISLE_STATUS_RESPONSE, text |-> <<250, 251, 65, 0>>],
     [command |-> AISLE_INFO, text |-> <<250, 251, 4, 1, 250>>]}

\* well-formed frames whose command byte is not in the Command enum
UnknownFrames ==
    {[command |-> 7, text |-> <<>>],
     [command |-> 255, text |-> <<250, 251, 65, 0, 187>>]}

\* the bytes of a run of frames
RECURSIVE Wire(_)
Wire(frames) ==
    IF frames = <<>> THEN <<>>
    ELSE create_packet(Head(frames).command, Head(frames).text) \o Wire(Tail(frames))

\* two valid frames on the channel, back to back or with one frame of unknown
\* command between them
InitOrder ==
    /\ Constructed
    /\ \E f \in OrderFrames, g \in OrderFrames :
          \/ sent = <<f, g>>
          \/ \E u \in UnknownFrames : sent = <<f, u, g>>
    /\ channel = Wire(sent)
    /\ buffer = <<>>
    /\ received = <<>>

SpecOrder == InitOrder /\ [][NextStream]_vars

(* ------------------------ aisle numbers below 1 ----------------------- *)
\* the aisle numbers of the calls: 0 and 1 (the pending tables are dicts, any int
\* is a key)
ZeroAisles == {0, 1}

\* the AISLE_STATUS_RESPONSE and DISPENSING_STATUS texts for those aisles
ZeroTexts == {<<1, 2>> \o PackH(a) : a \in ZeroAisles}

\* __init__ of the controller and of the facade, before a call whose aisle
\* number may be 0
InitZero ==
    /\ life = "new"
    /\ connected = FALSE
    /\ serial_open = FALSE
    /\ running = FALSE
    /\ max_retries \in 1..MaxRetriesCfg
    /\ comm_number = 1
    /\ command_queue = <<>>
    /\ dispense_callbacks = [a \in ZeroAisles |-> 0]
    /\ aisle_status_callbacks = [a \in ZeroAisles |-> 0]
    /\ now = Epoch
    /\ linkpc = "idle"
    /\ linklocal = <<>>
    /\ nsync = 0
    /\ lock = "free"
    /\ pending_dispenses = [a \in ZeroAisles |-> 0]
    /\ pending_status_checks = [a \in ZeroAisles |-> 0]
    /\ cpc = [c \in Callers |-> "idle"]
    /\ ckind = [c \in Callers |-> None]
    /\ caisle = [c \in Callers |-> 0]
    /\ fut = [c \in Callers |-> "none"]
    /\ posted = [c \in Callers |-> <<>>]
    /\ fut_result = [c \in Callers |-> Nothing]
    /\ response = [c \in Callers |-> Nothing]
    /\ nsub = 0
    /\ dropped = {}
    /\ handled = <<>>
    /\ wrote = <<>>
    /\ invoked = <<>>
    /\ tried = 0
    /\ sent = <<>>
    /\ channel = <<>>
    /\ buffer = <<>>
    /\ received = <<>>

\* POST /dispense or /aisle/{n}/dispense with aisle_number < 1: DispenseRequest
\* (aisle_number: Field(ge=1)) raises ValidationError, DispenseService.dispense
\* is not called and the request ends without a DispenseResponse
DispenseInvalid(c, a) ==
    /\ FacadeUp
    /\ CanCall(c)
    /\ a < 1
    /\ cpc' = [cpc EXCEPT ![c] = "returned"]
    /\ ckind' = [ckind EXCEPT ![c] = "dispense"]
    /\ caisle' = [caisle EXCEPT ![c] = a]
    /\ Quiet
    /\ UNCHANGED <<engine, link, nsub, dropped, framer>>
    /\ UNCHANGED <<pending_dispenses, pending_status_checks, fut, posted, fut_result,
                   response>>

\* GET /aisle/{aisle_number}/status passes any int to check_aisle_status, which
\* validates nothing
NextZero ==
    \/ Connect(TRUE)
    \/ StartThread
    \/ StartSync
    \/ Tick(1)
    \/ RecvPoll(TRUE)
    \/ RecvAck
    \/ \E text \in ZeroTexts : RecvDispensingStatus(text, TRUE)
    \/ \E text \in ZeroTexts : RecvAisleStatusResponse(text, TRUE)
    \/ \E c \in Callers : \E a \in ZeroAisles : a >= 1 /\ Dispense(c, a, FALSE)
    \/ \E c \in Callers : \E a \in ZeroAisles : DispenseInvalid(c, a)
    \/ \E c \in Callers : \E a \in ZeroAisles : CheckAisle(c, a)
    \/ \E c \in Callers : LoopSetResult(c)
    \/ \E c \in Callers : Return(c)
    \/ \E c \in Callers : Timeout(c)

SpecZero == InitZero /\ [][NextZero]_vars

(* ----------------------- the first dispense, aisle 5 ----------------- *)
HappyAisle == 5

\* statuses DISPENSING and SUCCESS (NORMAL and OUT_OF_STOCK) for that aisle
HappyTexts == {<<1, 1>> \o PackH(HappyAisle), <<1, 2>> \o PackH(HappyAisle)}

\* __init__ of the controller and of the facade, before a call for aisle 5
InitHappy ==
    /\ life = "new"
    /\ connected = FALSE
    /\ serial_open = FALSE
    /\ running = FALSE
    /\ max_retries \in 1..MaxRetriesCfg
    /\ comm_number = 1
    /\ command_queue = <<>>
    /\ dispense_callbacks = [a \in {HappyAisle} |-> 0]
    /\ aisle_status_callbacks = [a \in {HappyAisle} |-> 0]
    /\ now = Epoch
    /\ linkpc = "idle"
    /\ linklocal = <<>>
    /\ nsync = 0
    /\ lock = "free"
    /\ pending_dispenses = [a \in {HappyAisle} |-> 0]
    /\ pending_status_checks = [a \in {HappyAisle} |-> 0]
    /\ cpc = [c \in Callers |-> "idle"]
    /\ ckind = [c \in Callers |-> None]
    /\ caisle = [c \in Callers |-> 0]
    /\ fut = [c \in Callers |-> "none"]
    /\ posted = [c \in Callers |-> <<>>]
    /\ fut_result = [c \in Callers |-> Nothing]
    /\ response = [c \in Callers |-> Nothing]
    /\ nsub = 0
    /\ dropped = {}
    /\ handled = <<>>
    /\ wrote = <<>>
    /\ invoked = <<>>
    /\ tried = 0
    /\ sent = <<>>
    /\ channel = <<>>
    /\ buffer = <<>>
    /\ received = <<>>

\* lifespan (connect, start, init_services), the link thread, and one call
NextHappy ==
    \/ Connect(TRUE)
    \/ StartThread
    \/ StartSync
    \/ Tick(1)
    \/ \E ok \in BOOLEAN : RecvPoll(ok)
    \/ RecvAck
    \/ RecvRequestSync(TRUE)
    \/ SyncFinish
    \/ \E text \in HappyTexts : RecvDispensingStatus(text, TRUE)
    \/ RearmFinish(TRUE)
    \/ \E text \in HappyTexts : RecvAisleStatusResponse(text, TRUE)
    \/ \E c \in Callers, force \in BOOLEAN : Dispense(c, HappyAisle, force)
    \/ \E c \in Callers : CheckAisle(c, HappyAisle)
    \/ \E c \in Callers : LoopSetResult(c)
    \/ \E c \in Callers : Return(c)
    \/ \E c \in Callers : Timeout(c)

SpecHappy == InitHappy /\ [][NextHappy]_vars

(* --------------------- a VMC that never sends ACK --------------------- *)
\* the VMC sends POLL and REQUEST_SYNC but no ACK and no status; every write to
\* the channel succeeds; the driver is not shut down
NextNoAck ==
    \/ Connect(TRUE)
    \/ StartThread
    \/ StartSync
    \/ Tick(1)
    \/ RecvPoll(TRUE)
    \/ RecvRequestSync(TRUE)
    \/ SyncFinish
    \/ \E c \in Callers : \E a \in CallAisles(c), force \in BOOLEAN : Dispense(c, a, force)
    \/ \E c \in Callers : \E a \in CallAisles(c) : CheckAisle(c, a)
    \/ \E c \in Callers : Timeout(c)

\* time.time() advances, the VMC keeps polling (once the link thread is ready
\* for the next frame, a POLL is handled), and request_info_sync runs to its end
SpecNoAck ==
    /\ Init
    /\ [][NextNoAck]_vars
    /\ WF_vars(Tick(1))
    /\ WF_vars(RecvPoll(TRUE))
    /\ WF_vars(SyncFinish)

\* one valid frame on the channel, to be read in pieces: the frames of
\* OrderFrames and one with the longest text
InitSplit ==
    /\ Constructed
    /\ \E f \in OrderFrames \cup {[command |-> AISLE_INFO, text |-> LongText]} :
          sent = <<f>>
    /\ channel = Wire(sent)
    /\ buffer = <<>>
    /\ received = <<>>

SpecSplit == InitSplit /\ [][NextStream]_vars

(* ----------------------- the queue lock, step by step ------------------ *)
\* The handlers above take self.lock and give it back inside one step.  Here a
\* with-block is two steps: the first acquires the lock (it waits until the lock
\* is free) and runs the block, the second is the block's exit, which releases.
\* linkpc is "locked" while the link thread is inside its with-block, and
\* cpc[c] is "locked" while caller c is inside queue_command's.

\* (mutant) a write that raises leaves handle_poll without releasing the lock
LockPoll_leak(ok) ==
    /\ running
    /\ linkpc = "idle"
    /\ lock = "free"
    /\ lock' = "link"
    /\ linkpc' = IF ok THEN "locked" ELSE "idle"
    /\ LET q1 == PollTimeoutStep(command_queue, now)
       IN  IF PollSendsHead(q1)
           THEN /\ command_queue' = IF ok THEN PollMarkSent(q1, Epoch) ELSE q1
                /\ now' = Epoch
                /\ wrote' = IF ok THEN <<q1[1].packet>> ELSE <<>>
           ELSE /\ command_queue' = q1
                /\ now' = Rebased(q1, now)
                /\ wrote' = send_ack(ok)
    /\ dropped' = dropped \cup PollDiscards(command_queue, now)
    /\ handled' = <<POLL>>
    /\ tried' = 1
    /\ invoked' = <<>>
    /\ UNCHANGED <<life, connected, serial_open, running, max_retries, comm_number,
                   dispense_callbacks, aisle_status_callbacks>>
    /\ UNCHANGED <<linklocal, nsync, facade, nsub, framer>>

\* handle_poll: "with self.lock:" and the two blocks inside it; the write of the
\* head command is inside try/except, send_ack catches its own exception
LockPoll(ok) ==
    /\ running
    /\ linkpc = "idle"
    /\ lock = "free"
    /\ lock' = "link"
    /\ linkpc' = "locked"
    /\ LET q1 == PollTimeoutStep(command_queue, now)
       IN  IF PollSendsHead(q1)
           THEN /\ command_queue' = IF ok THEN PollMarkSent(q1, Epoch) ELSE q1
                /\ now' = Epoch
                /\ wrote' = IF ok THEN <<q1[1].packet>> ELSE <<>>
           ELSE /\ command_queue' = q1
                /\ now' = Rebased(q1, now)
                /\ wrote' = send_ack(ok)
    /\ dropped' = dropped \cup PollDiscards(command_queue, now)
    /\ handled' = <<POLL>>
    /\ tried' = 1
    /\ invoked' = <<>>
    /\ UNCHANGED <<life, connected, serial_open, running, max_retries, comm_number,
                   dispense_callbacks, aisle_status_callbacks>>
    /\ UNCHANGED <<linklocal, nsync, facade, nsub, framer>>

\* the ACK branch of handle_received_packet: "with self.lock:" and the pop
LockAck ==
    /\ running
    /\ linkpc = "idle"
    /\ lock = "free"
    /\ lock' = "link"
    /\ linkpc' = "locked"
    /\ command_queue' = AckStep(command_queue)
    /\ now' = Rebased(command_queue', now)
    /\ handled' = <<ACK>>
    /\ tried' = 0
    /\ wrote' = <<>>
    /\ invoked' = <<>>
    /\ UNCHANGED <<life, connected, serial_open, running, max_retries, comm_number,
                   dispense_callbacks, aisle_status_callbacks>>
    /\ UNCHANGED <<linklocal, nsync, facade, nsub, dropped, framer>>

\* the REQUEST_SYNC branch after send_ack: request_info_sync stores the new
\* comm number, then queue_command takes the lock and appends
LockSync ==
    /\ linkpc = "sync"
    /\ lock = "free"
    /\ lock' = "link"
    /\ linkpc' = "locked"
    /\ comm_number' = NextComm(comm_number)
    /\ command_queue' = queue_command(command_queue, REQUEST_SYNC, <<linklocal[1]>>, nsub + 1)
    /\ nsub' = nsub + 1
    /\ linklocal' = <<>>
    /\ handled' = <<REQUEST_SYNC>>
    /\ tried' = 0
    /\ wrote' = <<>>
    /\ invoked' = <<>>
    /\ UNCHANGED <<life, connected, serial_open, running, max_retries,
                   dispense_callbacks, aisle_status_callbacks, now>>
    /\ UNCHANGED <<nsync, facade, dropped, framer>>

\* the exit of the link thread's with-block
LinkRelease ==
    /\ linkpc = "locked"
    /\ lock = "link"
    /\ lock' = "free"
    /\ linkpc' = "idle"
    /\ UNCHANGED <<engine, linklocal, nsync, facade, obs, framer>>

\* start(): request_info_sync on the starting thread, whose queue_command waits
\* for the lock like any other
LockStartSync == lock = "free" /\ StartSync

\* DispenseService.dispense up to controller.dispense's queue_command: the call
\* is registered, then queue_command takes the lock and appends
LockDispense(c, a) ==
    /\ FacadeUp
    /\ CanCall(c)
    /\ is_connected
    /\ lock = "free"
    /\ lock' = "caller"
    /\ cpc' = [cpc EXCEPT ![c] = "locked"]
    /\ fut' = [fut EXCEPT ![c] = "pending"]
    /\ pending_dispenses' = Register(pending_dispenses, a, c)
    /\ comm_number' = NextComm(comm_number)
    /\ dispense_callbacks' = Register(dispense_callbacks, a, c)
    /\ command_queue' = queue_command(command_queue, SELECT_BUY,
                                      DispenseText(FALSE, comm_number, a), nsub + 1)
    /\ nsub' = nsub + 1
    /\ ckind' = [ckind EXCEPT ![c] = "dispense"]
    /\ caisle' = [caisle EXCEPT ![c] = a]
    /\ Quiet
    /\ UNCHANGED <<life, connected, serial_open, running, max_retries,
                   aisle_status_callbacks, now>>
    /\ UNCHANGED <<linkpc, linklocal, nsync, pending_status_checks, posted,
                   fut_result, response, dropped, framer>>

\* the exit of queue_command's with-block on the caller's thread; the call then
\* waits for its future
CallerRelease(c) ==
    /\ cpc[c] = "locked"
    /\ lock = "caller"
    /\ lock' = "free"
    /\ cpc' = [cpc EXCEPT ![c] = "waiting"]
    /\ UNCHANGED <<engine, linkpc, linklocal, nsync, obs, framer>>
    /\ UNCHANGED <<pending_dispenses, pending_status_checks, ckind, caisle, fut,
                   posted, fut_result, response>>

NextLock ==
    \/ Connect(TRUE)
    \/ StartThread
    \/ LockStartSync
    \/ Tick(1)
    \/ \E ok \in BOOLEAN : LockPoll(ok)
    \/ LockAck
    \/ RecvRequestSync(TRUE)
    \/ LockSync
    \/ LinkRelease
    \/ \E c \in Callers : LockDispense(c, 1)
    \/ \E c \in Callers : CallerRelease(c)
    \/ \E c \in Callers : Timeout(c)

\* a with-block that has been entered is left: its exit is not held up by
\* anything
SpecLock ==
    /\ Init
    /\ [][NextLock]_vars
    /\ WF_vars(LinkRelease)
    /\ \A c \in Callers : WF_vars(CallerRelease(c))

(* ================================ claims ============================== *)
\* the frame send_ack writes
AckPacket == create_packet(ACK, <<>>)

\* C1: at most one queued command waits for its ACK, and a command that waits
\* is the head of the queue.
C1_OneInFlightAtHead ==
    \A i \in 1..Len(command_queue) : command_queue[i].waiting_ack => i = 1

\* C1 witness: the head waits for its ACK while another command is queued
C1_Witness ==
    /\ Len(command_queue) >= 2
    /\ command_queue[1].waiting_ack

\* C2, in every state: the queue holds the commands in submission order, and no
\* command behind the head has been written.
C2_OrderInv ==
    \A i, j \in 1..Len(command_queue) :
        i < j => /\ command_queue[i].id < command_queue[j].id
                 /\ command_queue[j].writes = 0

\* C2, in every step: a command leaves the queue only after it has been written.
C2_LeavesWritten ==
    \A i \in 1..Len(command_queue) :
        command_queue[i].id \notin Ids(command_queue') => command_queue[i].writes >= 1

\* C2: commands are transmitted in submission order: a command is not written
\* while a command submitted before it is in the queue, and every command
\* submitted before it was written before it left the queue.
C2_InSubmissionOrder == [](C2_OrderInv) /\ [][C2_LeavesWritten]_vars

\* C2 witness: the second command submitted has been written, the third waits
\* behind it
C2_Witness ==
    /\ Len(command_queue) >= 2
    /\ command_queue[1].id = 2
    /\ command_queue[1].writes >= 1

\* C3, in every state: a queued command has been written at most max_retries
\* times.
C3_WritesBounded ==
    \A i \in 1..Len(command_queue) :
        command_queue[i].writes <= command_queue[i].max_retries

\* C3, in every POLL that finds the head waiting for longer than
\* COMMAND_TIMEOUT: the attempt count goes up by one; below the maximum the head
\* is written again in that POLL (or stays unsent when the write raises); at the
\* maximum it is removed and not written.
C3_ExpiredStep ==
    (/\ handled' = <<POLL>>
     /\ command_queue # <<>>
     /\ command_queue[1].waiting_ack
     /\ now - command_queue[1].sent_time > COMMAND_TIMEOUT)
    => LET head == command_queue[1]
       IN  IF head.retries + 1 < head.max_retries
           THEN /\ command_queue' # <<>>
                /\ command_queue'[1].id = head.id
                /\ command_queue'[1].retries = head.retries + 1
                /\ \/ /\ wrote' = <<head.packet>>
                      /\ command_queue'[1].waiting_ack
                      /\ command_queue'[1].writes = head.writes + 1
                   \/ /\ wrote' = <<>>
                      /\ ~command_queue'[1].waiting_ack
                      /\ command_queue'[1].writes = head.writes
           ELSE /\ head.id \notin Ids(command_queue')
                /\ command_queue' = IF Len(command_queue) >= 2 /\ wrote' # <<>>
                                    THEN PollMarkSent(Tail(command_queue), Epoch)
                                    ELSE Tail(command_queue)

C4_AllWritesDuringPoll == wrote # <<>> => handled = <<POLL>>

\* C4 amended: a command frame is written only while a POLL is handled; an ACK
\* frame is written while a POLL is handled or after a received frame other than
\* POLL and ACK has been handled; no frame is written outside the handling of a
\* received frame.
C4_CommandsDuringPoll ==
    /\ Len(wrote) <= 1
    /\ wrote # <<>> => /\ handled # <<>>
                       /\ handled # <<ACK>>
                       /\ wrote # <<AckPacket>> => handled = <<POLL>>

\* C4 witness: a command frame has been written in a POLL
C4_Witness ==
    /\ handled = <<POLL>>
    /\ wrote # <<>>
    /\ wrote # <<AckPacket>>

\* the status names and messages the claims give, by wire status code
C5_Status(code) ==
    CASE code = 2 -> "SUCCESS"
      [] code = 3 -> "JAMMED"
      [] code = 4 -> "MOTOR_DOESNT_STOP"
      [] code = 6 -> "MOTOR_DOESNT_EXIST"
      [] OTHER -> None

C5_Message(code) ==
    CASE code = 2 -> "Dispense successful"
      [] code = 3 -> "Product jammed"
      [] code = 4 -> "Motor error - doesn't stop"
      [] code = 6 -> "Motor not found"
      [] OTHER -> "Unknown error"

\* C5, in every step that handles a DISPENSING_STATUS with a status other than
\* DISPENSING for an aisle with a pending dispense: the entry is removed and its
\* callback is invoked once, with success exactly for SUCCESS, the parsed aisle
\* and the message of the status.
C5_TerminalStep ==
    handled' = <<DISPENSING_STATUS>> =>
    \A text \in StatusTexts, ok \in BOOLEAN :
        (/\ Len(text) >= 4
         /\ text[2] # 1
         /\ InTable(dispense_callbacks, UnpackH(text))
         /\ RecvDispensingStatus(text, ok))
        => /\ dispense_callbacks'[UnpackH(text)] = 0
           /\ invoked' = << <<dispense_callbacks[UnpackH(text)],
                              [success |-> text[2] = 2,
                               aisle_number |-> UnpackH(text),
                               status |-> C5_Status(text[2]),
                               message |-> C5_Message(text[2])]>> >>

\* C5: a terminal DISPENSING_STATUS for an aisle with a pending dispense removes
\* the entry and invokes its callback exactly once with the result of the status.
C5_TerminalResolves == [][C5_TerminalStep]_vars

\* C5 witness: the callback of a pending dispense has been invoked with
\* 'Unknown error' for an unrecognised status code
C5_Witness ==
    /\ handled = <<DISPENSING_STATUS>>
    /\ invoked # <<>>
    /\ invoked[1][2].message = "Unknown error"
    /\ dispense_callbacks[invoked[1][2].aisle_number] = 0

\* C6, in every state: a call's slot holds, or is about to be given, at most one
\* result, and never one with status DISPENSING.
C6_ResolvedOnce ==
    \A c \in Callers :
        ckind[c] = "dispense" =>
            /\ Len(posted[c]) + (IF fut[c] = "done" THEN 1 ELSE 0) <= 1
            /\ \A i \in 1..Len(posted[c]) : posted[c][i].status # "DISPENSING"
            /\ fut[c] = "done" => fut_result[c][1].status # "DISPENSING"

\* C6, in every step that handles a DISPENSING_STATUS with status DISPENSING for
\* an aisle with a pending dispense, up to the end of its handler: no callback is
\* invoked, no slot is resolved, and when the handler ends the pending dispense
\* is in place again; a result is scheduled for a slot only by the callback
\* invoked with a status other than DISPENSING, and the slot is resolved with it.
C6_DispensingStep ==
    /\ handled' = <<DISPENSING_STATUS>> =>
       \A text \in StatusTexts, ok \in BOOLEAN :
          (/\ Len(text) >= 4
           /\ text[2] = 1
           /\ InTable(dispense_callbacks, UnpackH(text))
           /\ RecvDispensingStatus(text, ok))
          => /\ invoked' = <<>>
             /\ UNCHANGED <<posted, fut, fut_result>>
             /\ linkpc' = "rearm"
             /\ linklocal' = <<UnpackH(text), dispense_callbacks[UnpackH(text)]>>
    /\ (linkpc = "rearm" /\ linkpc' # "rearm")
          => /\ invoked' = <<>>
             /\ UNCHANGED <<posted, fut, fut_result>>
             /\ dispense_callbacks'[linklocal[1]] = linklocal[2]
    /\ \A c \in Callers :
          (ckind[c] = "dispense" /\ Len(posted'[c]) > Len(posted[c]))
          => /\ invoked' = << <<c, posted'[c][Len(posted'[c])]>> >>
             /\ posted'[c][Len(posted'[c])].status # "DISPENSING"
    /\ \A c \in Callers :
          (ckind[c] = "dispense" /\ fut[c] = "pending" /\ fut'[c] = "done")
          => fut_result'[c] = Some(posted[c][1])

\* C6: DISPENSING notifications never resolve the slot and leave the pending
\* dispense in place; the slot is resolved at most once, by a terminal status.
C6_DispensingKeepsPending == [](C6_ResolvedOnce) /\ [][C6_DispensingStep]_vars

\* C6 witness: a DISPENSING notification has been handled and the pending
\* dispense is back in place, its slot unresolved
C6_Witness ==
    /\ handled = <<DISPENSING_STATUS>>
    /\ linkpc = "idle"
    /\ wrote = <<AckPacket>>
    /\ invoked = <<>>
    /\ \E a \in Aisles :
          /\ dispense_callbacks[a] # 0
          /\ fut[dispense_callbacks[a]] = "pending"
          /\ posted[dispense_callbacks[a]] = <<>>
    /\ command_queue = <<>>

\* the caller-facing status and message the claim gives for an aisle status
C7_Status(status) ==
    CASE status = "NORMAL" -> "normal"
      [] status = "OUT_OF_STOCK" -> "out_of_stock"
      [] status = "DOESNT_EXIST" -> "not_exist"
      [] status = "PAUSED" -> "paused"
      [] OTHER -> "not_exist"

C7_Message(status) ==
    CASE status = "NORMAL" -> "Aisle is ready"
      [] status = "OUT_OF_STOCK" -> "Aisle is out of stock"
      [] status = "DOESNT_EXIST" -> "Aisle does not exist"
      [] status = "PAUSED" -> "Aisle is paused"
      [] OTHER -> "Unknown status"

C7_WireStatus(code) ==
    CASE code = 1 -> "NORMAL"
      [] code = 2 -> "OUT_OF_STOCK"
      [] code = 3 -> "DOESNT_EXIST"
      [] code = 4 -> "PAUSED"
      [] OTHER -> None

\* C7, in every step that handles an AISLE_STATUS_RESPONSE for an aisle with a
\* pending status check, whatever comm number it echoes: the entry is removed and
\* its callback is invoked with the aisle and the parsed status, which is posted
\* to the call's slot.
C7_ResponseStep ==
    handled' = <<AISLE_STATUS_RESPONSE>> =>
    \A text \in StatusTexts, ok \in BOOLEAN :
        (/\ Len(text) >= 4
         /\ InTable(aisle_status_callbacks, UnpackH(text))
         /\ RecvAisleStatusResponse(text, ok))
        => LET c == aisle_status_callbacks[UnpackH(text)]
               value == [aisle_num |-> UnpackH(text), status |-> C7_WireStatus(text[2])]
           IN  /\ aisle_status_callbacks'[UnpackH(text)] = 0
               /\ invoked' = << <<c, value>> >>
               /\ fut[c] = "pending" => posted'[c] = Append(posted[c], value)

\* C7, in every state: a status check that returned its slot's result returned
\* the mapped status and the message of that status, for the result's aisle.
C7_Returned ==
    \A c \in Callers :
        (cpc[c] = "returned" /\ ckind[c] = "check" /\ fut[c] = "done")
        => response[c] = Some([aisle_number |-> fut_result[c][1].aisle_num,
                               status |-> C7_Status(fut_result[c][1].status),
                               message |-> C7_Message(fut_result[c][1].status)])

\* C7: an AISLE_STATUS_RESPONSE resolves the pending status check of its aisle,
\* matched by aisle number only, and the facade returns the mapped status and
\* message.
C7_StatusCheckResolved == [](C7_Returned) /\ [][C7_ResponseStep]_vars

\* C7 witness: a status check returned not_exist / 'Aisle does not exist' from a
\* response with status 0x03
C7_Witness ==
    \E c \in Callers :
        /\ cpc[c] = "returned"
        /\ ckind[c] = "check"
        /\ fut[c] = "done"
        /\ fut_result[c][1].status = "DOESNT_EXIST"
        /\ response[c][1].message = "Aisle does not exist"
        /\ aisle_status_callbacks[caisle[c]] = 0

\* the caller-facing status the claim gives for an engine status
C8_Status(status) ==
    CASE status = "DISPENSING" -> "dispensing"
      [] status = "SUCCESS" -> "success"
      [] status = "JAMMED" -> "jammed"
      [] status = "MOTOR_DOESNT_STOP" -> "motor_error"
      [] status = "MOTOR_DOESNT_EXIST" -> "not_found"
      [] OTHER -> "failed"

\* C8: a dispense that returned its slot's result returned the mapped status,
\* with the success flag and the message of the engine's result; the mapping
\* takes every engine status, and None for an unrecognised wire status, to the
\* claimed value.
C8_DispenseStatusMapped ==
    /\ \A status \in {"DISPENSING", "SUCCESS", "JAMMED", "MOTOR_DOESNT_STOP",
                      "MOTOR_DOESNT_EXIST", None} :
          map_dispense_status(status) = C8_Status(status)
    /\ \A c \in Callers :
          (cpc[c] = "returned" /\ ckind[c] = "dispense" /\ fut[c] = "done")
          => response[c] = Some([success |-> fut_result[c][1].success,
                                 aisle_number |-> fut_result[c][1].aisle_number,
                                 status |-> C8_Status(fut_result[c][1].status),
                                 message |-> fut_result[c][1].message])

\* C8 witness: a dispense returned not_found for MOTOR_DOESNT_EXIST
C8_Witness ==
    \E c \in Callers :
        /\ cpc[c] = "returned"
        /\ ckind[c] = "dispense"
        /\ fut[c] = "done"
        /\ fut_result[c][1].status = "MOTOR_DOESNT_EXIST"
        /\ response[c][1].status = "not_found"

\* C9, in every step in which a dispense is called while the controller is not
\* connected: the call returns at once with success false, status failed and
\* 'VMC not connected', and the comm counter, the queue and the pending and
\* callback tables are unchanged.
C9_Step ==
    \A c \in Callers :
        (/\ cpc[c] = "idle"
         /\ cpc'[c] # "idle"
         /\ ckind'[c] = "dispense"
         /\ ~(connected /\ serial_open))
        => /\ cpc'[c] = "returned"
           /\ response'[c] = Some([success |-> FALSE, aisle_number |-> caisle'[c],
                                   status |-> "failed", message |-> "VMC not connected"])
           /\ UNCHANGED <<comm_number, command_queue, dispense_callbacks,
                          aisle_status_callbacks, pending_dispenses,
                          pending_status_checks, posted, nsub>>
           /\ wrote' = <<>>

\* C9: a dispense on a controller that is not connected fails at once and
\* changes nothing.
C9_NotConnected == [][C9_Step]_vars

\* C9 witness: a dispense called after disconnect returned 'VMC not connected'
C9_Witness ==
    \E c \in Callers :
        /\ life = "down"
        /\ cpc[c] = "returned"
        /\ ckind[c] = "dispense"
        /\ fut[c] = "none"
        /\ response[c][1].message = "VMC not connected"

\* C10 as claimed: once a call has returned, neither the facade's pending table
\* nor the engine's callback table maps its aisle to its slot or callback.
C10_NoEntryAfterReturn ==
    \A c \in Callers :
        (cpc[c] = "returned" /\ caisle[c] \in Aisles)
        => IF ckind[c] = "dispense"
           THEN pending_dispenses[caisle[c]] # c /\ dispense_callbacks[caisle[c]] # c
           ELSE pending_status_checks[caisle[c]] # c
                /\ aisle_status_callbacks[caisle[c]] # c

\* the call submitted last
C11_Newest(c) == cpc[c] # "idle" /\ \A d \in DOMAIN cpc : d > c => cpc[d] = "idle"

\* C11 as claimed: while a call's own command is the only queued command and has
\* not been written, and an earlier dispense for the same aisle has timed out,
\* no result is scheduled for or stored in the newer call's slot.
C11_LateResponseDropped ==
    \A c \in DOMAIN cpc : \A t \in DOMAIN cpc :
        (/\ t < c
         /\ C11_Newest(c)
         /\ ckind[t] = "dispense" /\ ckind[c] = "dispense"
         /\ cpc[t] = "returned" /\ fut[t] = "cancelled"
         /\ caisle[c] = caisle[t]
         /\ Len(command_queue) = 1
         /\ command_queue[1].id = nsub
         /\ command_queue[1].command = SELECT_BUY
         /\ command_queue[1].writes = 0)
        => posted[c] = <<>> /\ fut[c] # "done"

\* call c is the only call for its aisle and its dispense command was discarded
\* after the last allowed attempt
C12_Dropped(c) ==
    /\ ckind[c] = "dispense"
    /\ \A e \in DOMAIN cpc : e # c => caisle[e] # caisle[c]
    /\ \E d \in dropped, force \in BOOLEAN :
          /\ d.command = DispenseCommand(force)
          /\ d.text = DispenseText(force, d.text[1], caisle[c])

\* C12, in every POLL step that discards a command: no callback is invoked and
\* the callback tables, the pending tables, the slots and the calls are as before.
C12_DiscardStep ==
    (handled' = <<POLL>> /\ Len(command_queue') < Len(command_queue))
    => /\ invoked' = <<>>
       /\ UNCHANGED <<dispense_callbacks, aisle_status_callbacks, pending_dispenses,
                      pending_status_checks, fut, posted, fut_result, cpc, response>>

\* C12 as claimed, second half: a dispense whose command was discarded ends only
\* through the facade's timeout, with 'Operation timed out'.
C12_EndsOnlyByTimeout ==
    \A c \in DOMAIN cpc :
        (C12_Dropped(c) /\ cpc[c] = "returned")
        => response[c] = Some([success |-> FALSE, aisle_number |-> caisle[c],
                               status |-> "failed", message |-> "Operation timed out"])

\* C12 as claimed: discarding a command is invisible to the caller, and the
\* pending dispense then ends only through the facade's timeout.
C12_RetryInvisibleOnlyTimeout == [](C12_EndsOnlyByTimeout) /\ [][C12_DiscardStep]_vars

\* C12 amended, second half, in every step in which a dispense whose command was
\* discarded returns: it returns 'Operation timed out' from the facade's timeout,
\* unless a DISPENSING_STATUS for its aisle had resolved its slot, and a result
\* is scheduled for its slot only while handling a DISPENSING_STATUS.
C12_EndStep ==
    \A c \in DOMAIN cpc :
        C12_Dropped(c) =>
            /\ (cpc[c] = "waiting" /\ cpc'[c] = "returned" /\ fut[c] # "done")
               => response'[c] = Some([success |-> FALSE, aisle_number |-> caisle[c],
                                       status |-> "failed",
                                       message |-> "Operation timed out"])
            /\ (cpc[c] = "waiting" /\ cpc'[c] # "waiting") => cpc'[c] = "returned"
            /\ Len(posted'[c]) > Len(posted[c]) => handled' = <<DISPENSING_STATUS>>

\* C12 amended: discarding a command invokes no callback and changes no table;
\* the pending dispense then ends through the facade's timeout with 'Operation
\* timed out', unless a DISPENSING_STATUS for its aisle resolves it first.
C12_RetryInvisible == [][C12_DiscardStep /\ C12_EndStep]_vars

\* C12 witness: a dispense whose command was discarded has returned 'Operation
\* timed out'
C12_Witness ==
    \E c \in DOMAIN cpc :
        /\ C12_Dropped(c)
        /\ cpc[c] = "returned"
        /\ fut[c] = "cancelled"
        /\ response[c][1].message = "Operation timed out"

\* C13, in every state: a call that has ended has returned a response value.
C13_Returned ==
    \A c \in Callers :
        /\ cpc[c] \in {"idle", "waiting", "returned"}
        /\ cpc[c] = "returned" => Len(response[c]) = 1

\* C13: every call that waits, whatever frames the VMC sends or withholds,
\* eventually returns, and every call that has ended has returned a response.
C13_AlwaysReturns ==
    /\ [](C13_Returned)
    /\ \A c \in Callers : (cpc[c] = "waiting") ~> (cpc[c] = "returned")

\* C13 witness: a status check that never got an answer has returned its timeout
\* response
C13_Witness ==
    \E c \in Callers :
        /\ cpc[c] = "returned"
        /\ ckind[c] = "check"
        /\ fut[c] = "cancelled"
        /\ response[c][1].message = "Status check timed out"

\* C14, in every state: the counter lies in 1..255, and the value returned by
\* call number k (k = 1, 2, ...) is ((k - 1) mod 255) + 1, which starts at 1,
\* is never 0 and repeats with period 255.
C14_Closed ==
    /\ comm_number \in 1..255
    /\ nsync > 0 => /\ linklocal = <<((nsync - 1) % 255) + 1>>
                    /\ linklocal[1] \in 1..255

\* C14, in every call: the value returned is the current one, and the counter
\* advances by one, from 255 to 1.
C14_Step ==
    /\ linklocal' = <<comm_number>>
    /\ comm_number' = IF comm_number = 255 THEN 1 ELSE comm_number + 1

\* C14: the generator starts at 1, returns the current value and advances
\* n to (n mod 255) + 1; the values returned lie in 1..255 with period 255.
C14_CommNumberPeriodic == [](C14_Closed) /\ [][C14_Step]_vars

\* C14 witness: the call after the one that returned 255 has returned 1
C14_Witness == nsync = 256 /\ linklocal = <<1>> /\ comm_number = 2

\* C15 as claimed: every queued command carries a comm number in 1..255, and
\* two queued commands, submitted fewer than 255 submissions apart, carry
\* different comm numbers.
C15_FreshCommNumbers ==
    \A i \in 1..Len(command_queue) :
        /\ command_queue[i].text[1] \in 1..255
        /\ \A j \in 1..Len(command_queue) :
              (i # j /\ command_queue[j].id - command_queue[i].id \in 1..254)
              => command_queue[i].text[1] # command_queue[j].text[1]

\* the entries a table holds for aisle a
C16_Entries(table, a) == {c \in DOMAIN cpc : table[a] = c}

\* C16: each table holds, per aisle, nothing or the entry of one call of its kind
\* for that aisle (0 marks an absent key), and the facade's tables hold only
\* entries of calls that are still waiting.
C16_OnePendingPerAisle ==
    \A a \in Aisles :
        /\ \A table \in {dispense_callbacks, pending_dispenses} :
              /\ table[a] \in {0} \cup DOMAIN cpc
              /\ Cardinality(C16_Entries(table, a)) <= 1
              /\ \A c \in C16_Entries(table, a) : ckind[c] = "dispense" /\ caisle[c] = a
        /\ \A table \in {aisle_status_callbacks, pending_status_checks} :
              /\ table[a] \in {0} \cup DOMAIN cpc
              /\ Cardinality(C16_Entries(table, a)) <= 1
              /\ \A c \in C16_Entries(table, a) : ckind[c] = "check" /\ caisle[c] = a
        /\ \A c \in C16_Entries(pending_dispenses, a) \cup
                    C16_Entries(pending_status_checks, a) : cpc[c] = "waiting"

\* C16 witness: two dispenses for the same aisle wait at once, and the tables hold
\* the entry of the second only
C16_Witness ==
    /\ cpc = <<"waiting", "waiting">>
    /\ ckind = <<"dispense", "dispense">>
    /\ caisle = <<1, 1>>
    /\ pending_dispenses[1] = 2
    /\ dispense_callbacks[1] = 2

\* bit k of byte b
C17_Bit(b, k) == (b \div (2 ^ k)) % 2

\* the last byte of p is the XOR of the bytes before it: bit by bit, it is the
\* parity of those bytes
C17_LastIsXor(p) ==
    \A k \in 0..7 :
        C17_Bit(p[Len(p)], k) =
            Cardinality({i \in 1..(Len(p) - 1) : C17_Bit(p[i], k) = 1}) % 2

\* C17: the encoded frame is STX, command, length, text and the XOR of all the
\* bytes before the last, 5 bytes longer than the text, and decoding it yields
\* the command and the text that were encoded.
C17_RoundTrip ==
    LET p == create_packet(sent[1].command, sent[1].text)
    IN  /\ Len(p) = 5 + Len(sent[1].text)
        /\ sent[1].text = <<>> => Len(p) = 5
        /\ Len(sent[1].text) = 255 => Len(p) = 260
        /\ C17_LastIsXor(p)
        /\ buffer = p => received = sent

\* C17 witness: a frame with a text of 255 bytes has been decoded
C17_Witness ==
    /\ Len(buffer) = 260
    /\ Len(sent[1].text) = 255
    /\ received = sent

\* the frame that was encoded
C18_Frame == create_packet(sent[1].command, sent[1].text)

\* C18 as claimed, in every step that decodes bytes that differ from the encoded
\* frame in one byte: nothing is delivered.
C18_AnyByteStep ==
    (channel # <<>> /\ channel # C18_Frame /\ buffer' = channel)
    => received' = <<>>

\* C18 as claimed: changing any single byte of a valid frame makes decode reject.
C18_AnyByteRejected == [][C18_AnyByteStep]_vars

\* C18 amended, in every step that decodes bytes that differ from the encoded
\* frame in one byte: nothing is delivered when the byte is an STX byte, the
\* command, a text byte or the checksum, or when the length byte was raised; when
\* the length byte was lowered to n, a frame is delivered exactly when the byte
\* at the new checksum position is the XOR of the bytes before it, and it is the
\* command with the first n bytes of the text.
C18_AmendedStep ==
    (channel # <<>> /\ channel # C18_Frame /\ buffer' = channel)
    => \A i \in 1..Len(channel) :
          channel[i] # C18_Frame[i] =>
              IF i # 4 \/ channel[4] > C18_Frame[4]
              THEN received' = <<>>
              ELSE IF C17_LastIsXor(SubSeq(channel, 1, 5 + channel[4]))
                   THEN received' = <<[command |-> sent[1].command,
                                       text |-> SubSeq(sent[1].text, 1, channel[4])]>>
                   ELSE received' = <<>>

\* C18 amended: a single changed byte makes decode reject, except that a lowered
\* length byte is accepted when the byte at the new checksum position matches.
C18_SingleByteRejected == [][C18_AmendedStep]_vars

\* C18 witness: a frame whose checksum byte was changed has been decoded, and
\* nothing was delivered
C18_Witness ==
    /\ buffer # <<>>
    /\ Len(buffer) = Len(C18_Frame)
    /\ buffer[Len(buffer)] # C18_Frame[Len(buffer)]
    /\ received = <<>>

\* C19 as claimed: however the stream 'noise, then a frame' is split into reads,
\* the frame is delivered at most once, and exactly once when all of it is read.
C19_GarbageThenFrame ==
    /\ Len(received) <= 1
    /\ received # <<>> => received = sent
    /\ channel = <<>> => received = sent

\* C20 as claimed: once the stream 'candidate with a raised length byte and a
\* failing checksum, then a valid frame that begins inside the candidate's span'
\* has been read, the valid frame has been delivered.
C20_FrameInsideSpanDelivered ==
    channel = <<>> => (received # <<>> /\ received[Len(received)] = sent[1])

\* the frames of sent whose command is in the Command enum
C21_Known == SelectSeq(sent, LAMBDA f : f.command \in CommandValues)

\* C21: the frames passed to handle_received_packet are, in order, the first
\* valid frames of the stream, a frame of unknown command is never among them,
\* and once the stream is read all the valid frames have been passed on.
C21_StreamOrder ==
    /\ Len(received) <= Len(C21_Known)
    /\ received = SubSeq(C21_Known, 1, Len(received))
    /\ channel = <<>> => received = C21_Known

\* the stream with an unknown frame in the middle is read and both valid frames
\* were passed on
C21_Witness ==
    /\ Len(sent) = 3
    /\ sent[2].command \notin CommandValues
    /\ sent[1] # sent[3]
    /\ channel = <<>>
    /\ received = <<sent[1], sent[3]>>

\* a call for aisle a begins in this step
C22_Begins(c, a) == cpc[c] = "idle" /\ cpc'[c] # "idle" /\ caisle'[c] = a

\* C22 as claimed: a dispense or a check_aisle_status whose aisle number is below
\* 1 takes no comm number, registers no pending entry and queues no command.
C22_BelowOneRejected ==
    [][\A c \in Callers : \A a \in ZeroAisles :
          (a < 1 /\ C22_Begins(c, a))
          => /\ comm_number' = comm_number
             /\ command_queue' = command_queue
             /\ dispense_callbacks' = dispense_callbacks
             /\ aisle_status_callbacks' = aisle_status_callbacks
             /\ pending_dispenses' = pending_dispenses
             /\ pending_status_checks' = pending_status_checks]_vars

\* the half of C22 that the code keeps: a dispense below 1 changes nothing
C22_DispenseBelowOneRejected ==
    [][\A c \in Callers : \A a \in ZeroAisles :
          (a < 1 /\ C22_Begins(c, a) /\ ckind'[c] = "dispense")
          => /\ comm_number' = comm_number
             /\ command_queue' = command_queue
             /\ dispense_callbacks' = dispense_callbacks
             /\ pending_dispenses' = pending_dispenses]_vars

\* the step wrote a SELECT_BUY frame
C23_WroteSelectBuy == wrote # <<>> /\ wrote[1][3] = SELECT_BUY

\* C23 as claimed: the first dispense(aisle=5, force=false) after start is
\* written as FA FB 03 03 01 00 05 05 (comm number 1; 05 is the XOR).
C23_FirstDispenseCommOne ==
    C23_WroteSelectBuy => wrote = <<<<250, 251, 3, 3, 1, 0, 5, 5>>>>

\* C23 amended: start() has taken comm number 1 for its REQUEST_SYNC, so when no
\* REQUEST_SYNC frame has been received the first operation, a dispense(aisle=5,
\* force=false), is written as FA FB 03 03 02 00 05 06 (comm number 2).
\* The first operation's command is the second one queued (id 2), after the
\* REQUEST_SYNC of start().
C23_FirstDispenseCommTwo ==
    (/\ C23_WroteSelectBuy
     /\ nsync = 0
     /\ command_queue # <<>>
     /\ command_queue[1].packet = wrote[1]
     /\ command_queue[1].id = 2)
    => wrote = <<<<250, 251, 3, 3, 2, 0, 5, 6>>>>

C23_Witness ==
    /\ nsync = 0
    /\ handled = <<POLL>>
    /\ wrote = <<<<250, 251, 3, 3, 2, 0, 5, 6>>>>
    /\ \E c \in Callers : cpc[c] = "waiting" /\ ckind[c] = "dispense" /\ caisle[c] = 5

\* queued command old as it is after this step has written it
C24_Sent(old) ==
    [old EXCEPT !.waiting_ack = TRUE, !.sent_time = now', !.writes = @ + 1]

\* the head waits for its ACK and its timeout has passed
C24_Expired ==
    /\ command_queue # <<>>
    /\ command_queue[1].waiting_ack
    /\ now - command_queue[1].sent_time > COMMAND_TIMEOUT

\* ... and this was its last attempt
C24_Exhausted ==
    C24_Expired /\ command_queue[1].retries + 1 >= command_queue[1].max_retries

C24_Step ==
    (handled' = <<POLL>> /\ wrote' # <<>>)
    => /\ Len(wrote') = 1
       /\ LET q == command_queue
          IN  CASE q = <<>> \/ (q[1].waiting_ack /\ ~C24_Expired)
                     -> wrote' = <<AckPacket>> /\ command_queue' = q
                [] q # <<>> /\ ~q[1].waiting_ack
                     -> /\ wrote' = <<q[1].packet>>
                        /\ command_queue' = <<C24_Sent(q[1])>> \o Tail(q)
                [] C24_Exhausted /\ Len(q) > 1
                     -> /\ wrote' = <<q[2].packet>>
                        /\ command_queue' = <<C24_Sent(q[2])>> \o Tail(Tail(q))
                [] C24_Exhausted /\ Len(q) = 1
                     -> wrote' = <<AckPacket>> /\ command_queue' = <<>>
                [] C24_Expired /\ ~C24_Exhausted
                     -> /\ wrote' = <<q[1].packet>>
                        /\ command_queue' =
                              <<C24_Sent([q[1] EXCEPT !.retries = @ + 1])>> \o Tail(q)

\* C24: a POLL whose write succeeds writes one frame.  With the queue empty, or
\* the head waiting for its ACK within the timeout, it is an ACK and the queue is
\* unchanged.  Otherwise it is the frame of the command at the head once an
\* expired head has been counted (and dropped after its last attempt, which
\* brings the next command to the head in the same POLL); that command is marked
\* as waiting with the time of the write.  An ACK is written when the dropped
\* command was the only one.
C24_PollWritesOneFrame == [][C24_Step]_vars

\* a POLL has dropped the call's command and written the command queued behind it
C24_Witness ==
    /\ handled = <<POLL>>
    /\ dropped # {}
    /\ command_queue # <<>>
    /\ command_queue[1].command = REQUEST_SYNC
    /\ command_queue[1].writes = 1
    /\ wrote = <<command_queue[1].packet>>

C25_Step ==
    handled' = <<ACK>>
    => /\ IF command_queue # <<>> /\ command_queue[1].waiting_ack
          THEN command_queue' = SubSeq(command_queue, 2, Len(command_queue))
          ELSE command_queue' = command_queue
       /\ invoked' = <<>>
       /\ posted' = posted
       /\ wrote' = <<>>
       /\ comm_number' = comm_number
       /\ dispense_callbacks' = dispense_callbacks
       /\ aisle_status_callbacks' = aisle_status_callbacks
       /\ pending_dispenses' = pending_dispenses
       /\ pending_status_checks' = pending_status_checks

\* C25: a received ACK removes the head of the queue when the head waits for its
\* ACK and otherwise leaves the queue as it is; it invokes no callback, changes
\* neither the pending tables nor the comm counter, and writes nothing.
C25_AckRemovesSentHead == [][C25_Step]_vars

\* an ACK has been handled, and the command of a call that still waits is no
\* longer queued though handle_poll never dropped it
C25_Witness ==
    /\ handled = <<ACK>>
    /\ dropped = {}
    /\ \E c \in Callers : cpc[c] = "waiting" /\ fut[c] = "pending"
    /\ \A i \in 1..Len(command_queue) : command_queue[i].command = REQUEST_SYNC

\* the step ends the handling of a frame that is neither POLL nor ACK
C26_Handled ==
    /\ handled' # <<>>
    /\ handled' # <<POLL>>
    /\ handled' # <<ACK>>

\* C26 as claimed: the handling of every frame other than POLL and ACK writes
\* exactly one ACK frame: in the step that handles it, or for a DISPENSING status
\* with a pending entry in the step that ends the handler; the step that queues
\* the reply to a REQUEST_SYNC, after the ACK, writes nothing more.
C26_AlwaysOneAck ==
    [][C26_Handled
       => CASE linkpc = "sync" -> wrote' = <<>>
            [] linkpc' = "rearm" -> wrote' = <<>>
            [] OTHER -> wrote' = <<AckPacket>>]_vars

C26_AmendedStep ==
    C26_Handled
    => /\ wrote' = <<>> \/ wrote' = <<AckPacket>>
       /\ CASE linkpc = "sync" -> tried' = 0 /\ wrote' = <<>>
            [] linkpc' = "rearm" -> tried' = 0 /\ wrote' = <<>>
            [] OTHER -> tried' = 1

\* C26 amended: the handling of every frame other than POLL and ACK makes
\* exactly one write to the channel, of an ACK frame, after the frame's handler
\* and in every case (matching entry, no entry, short text, unknown status
\* code); one ACK frame reaches the channel when that write succeeds and none
\* when it raises, and nothing else is written.
C26_OneAckWrite == [][C26_AmendedStep]_vars

\* an AISLE_STATUS_RESPONSE for a pending check was handled and acknowledged
C26_Witness ==
    /\ handled = <<AISLE_STATUS_RESPONSE>>
    /\ invoked # <<>>
    /\ tried = 1
    /\ wrote = <<AckPacket>>

\* the command SyncFinish has put at the tail of the queue
C27_Reply == command_queue'[Len(command_queue')]

\* the step that handles a REQUEST_SYNC writes the ACK and queues nothing yet;
\* the step that ends request_info_sync appends the reply and writes nothing
C27_Step ==
    /\ (handled' = <<REQUEST_SYNC>> /\ linkpc = "idle")
       => /\ wrote' = <<AckPacket>>
          /\ command_queue' = command_queue
    /\ (handled' = <<REQUEST_SYNC>> /\ linkpc = "sync")
       => /\ wrote' = <<>>
          /\ Len(command_queue') = Len(command_queue) + 1
          /\ SubSeq(command_queue', 1, Len(command_queue)) = command_queue
          /\ C27_Reply.command = REQUEST_SYNC
          /\ Len(C27_Reply.text) = 1
          /\ C27_Reply.text[1] \in 1..255
          /\ C27_Reply.writes = 0
          /\ ~C27_Reply.waiting_ack
          /\ \A j \in 1..Len(command_queue) :
                C27_Reply.id - command_queue[j].id \in 1..254
                => C27_Reply.text[1] # command_queue[j].text[1]
    /\ \A i \in 1..Len(command_queue) :
          \A j \in 1..Len(command_queue') :
             (/\ command_queue[i].command = REQUEST_SYNC
              /\ command_queue'[j].id = command_queue[i].id
              /\ command_queue'[j].writes > command_queue[i].writes)
             => handled' = <<POLL>> /\ i = 1

\* C27 as claimed: a received REQUEST_SYNC is answered with an ACK, then one
\* REQUEST_SYNC command is appended to the queue; its text is one comm number
\* that no command queued before it carries; it is not written when it is
\* queued, only in a later POLL and when it is the head of the queue.
C27_SyncReplyFresh == [][C27_Step]_vars

\* the first dispense for the aisle still waits, nothing has been scheduled for
\* its future, and the second dispense for the same aisle has been submitted
C28_Overlap ==
    /\ ckind = <<"dispense", "dispense">>
    /\ caisle[1] = caisle[2]
    /\ cpc[1] = "waiting" /\ fut[1] = "pending" /\ posted[1] = <<>>
    /\ cpc[2] # "idle"

\* the second dispense is submitted in this step while the first is pending
C28_Submit ==
    /\ ckind[1] = "dispense"
    /\ cpc[1] = "waiting" /\ fut[1] = "pending" /\ posted[1] = <<>>
    /\ cpc[2] = "idle" /\ cpc'[2] = "waiting"
    /\ ckind'[2] = "dispense"
    /\ caisle'[2] = caisle[1]

C28_Step ==
    /\ C28_Submit
       => /\ pending_dispenses'[caisle[1]] = 2
          /\ dispense_callbacks'[caisle[1]] = 2
          /\ Len(command_queue') = Len(command_queue) + 1
          /\ command_queue'[Len(command_queue')].command = SELECT_BUY
          /\ \A i \in 1..Len(command_queue) : command_queue[i].id < nsub'
    /\ C28_Overlap
       => /\ posted'[1] = <<>>
          /\ (handled' = <<DISPENSING_STATUS>> /\ invoked' # <<>>)
             => (Len(invoked') = 1 /\ invoked'[1][1] = 2)

\* C28 as claimed: a second dispense submitted while the first dispense for the
\* same aisle is pending replaces the first in both pending tables and its
\* command is queued behind the first's; from then on a terminal
\* DISPENSING_STATUS for the aisle resolves the second caller only, and nothing
\* ever resolves the first caller, which can end only by its timeout.
C28_SecondReplacesFirst == [][C28_Step]_vars

\* the command submitted as number k is queued / is queued and has been written
C29_Queued(k) == k \in Ids(command_queue)
C29_Written(k) ==
    \E i \in 1..Len(command_queue) :
        command_queue[i].id = k /\ command_queue[i].writes >= 1

\* C29: with a VMC that keeps polling and never sends ACK, the clock advancing
\* and writes succeeding, every queued command is eventually written and is
\* eventually removed from the queue, so the commands behind it get their turn.
C29_ExhaustionLive ==
    \A k \in 1..(1 + NumCalls + MaxSync) :
        /\ C29_Queued(k) ~> C29_Written(k)
        /\ C29_Queued(k) ~> ~C29_Queued(k)

\* the first two commands were given up and the third has been written
C29_Witness ==
    /\ command_queue # <<>>
    /\ command_queue[1].id = 3
    /\ command_queue[1].writes >= 1

\* C30: while a read has brought only part of a valid frame, no frame has been
\* passed on and the buffer holds every byte read so far; the read that brings
\* the last byte passes the frame on, once, and empties the buffer.
C30_TruncationKeepsBytes ==
    /\ channel # <<>> => (received = <<>> /\ buffer \o channel = Wire(sent))
    /\ channel = <<>> => (received = sent /\ buffer = <<>>)

\* a frame too long for one read has been read in pieces and passed on
C30_Witness ==
    /\ Len(Wire(sent)) > MaxRead
    /\ channel = <<>>
    /\ received = sent

\* call c waits and nothing has been scheduled for its future
C31_Outstanding(c) == cpc[c] = "waiting" /\ fut[c] = "pending" /\ posted[c] = <<>>

C31_Step ==
    /\ (life # "down" /\ life' = "down")
       => /\ invoked' = <<>>
          /\ wrote' = <<>>
          /\ UNCHANGED <<dispense_callbacks, aisle_status_callbacks, pending_dispenses,
                         pending_status_checks, command_queue, posted, fut, fut_result,
                         cpc, response>>
    /\ life = "down"
       => /\ invoked' = <<>>
          /\ wrote' = <<>>
          /\ UNCHANGED <<dispense_callbacks, aisle_status_callbacks, command_queue>>
          /\ \A c \in Callers : Len(posted'[c]) <= Len(posted[c])
          /\ \A c \in Callers :
                (C31_Outstanding(c) /\ cpc'[c] # "waiting")
                => /\ fut'[c] = "cancelled"
                   /\ response'[c][1].message =
                         (IF ckind[c] = "dispense" THEN "Operation timed out"
                          ELSE "Status check timed out")

\* C31: disconnect (with its stop) invokes no callback and leaves the callback
\* tables, the facade's pending tables, the queue and every future as they are;
\* after it nothing invokes a callback or schedules a result, and a call that
\* waits with nothing scheduled ends only by its own timeout.
C31_ShutdownResolvesNothing == [][C31_Step]_vars

\* the controller is down while a call waits, its callback registered and its
\* command queued
C31_Witness ==
    /\ life = "down"
    /\ command_queue # <<>>
    /\ \E c \in Callers :
          /\ C31_Outstanding(c)
          /\ ckind[c] = "dispense"
          /\ dispense_callbacks[caisle[c]] = c
          /\ pending_dispenses[caisle[c]] = c

\* the step stores caller c's callback for aisle a over another caller's,
\* and c is not registering in this step (c was already waiting)
C32_OlderReinserted(a, c) ==
    /\ dispense_callbacks[a] \in PairCallers \ {c}
    /\ dispense_callbacks'[a] = c
    /\ cpc[c] = "waiting"

\* C32: the DISPENSING re-arm is atomic with respect to a registration for the
\* same aisle: no step puts the callback of a call that already waits over a
\* callback registered by another call.
C32_RearmAtomic ==
    [][\A c \in PairCallers : ~C32_OlderReinserted(PairAisle, c)]_vars

\* the step writes the frame of a dispense command that had been written before
C33_WroteDispenseAgain ==
    /\ wrote' # <<>>
    /\ wrote'[1][3] \in {SELECT_BUY, DRIVE_AISLE_DIRECT}
    /\ command_queue # <<>>
    /\ command_queue[1].writes >= 1
    /\ wrote'[1] = command_queue[1].packet

\* a terminal DISPENSING_STATUS has resolved dispense call c: its callback has
\* scheduled a result, or the result is already stored in the future
C33_Resolved(c) ==
    ckind[c] = "dispense" /\ (posted[c] # <<>> \/ fut[c] = "done")

\* C33: once a terminal DISPENSING_STATUS has resolved the dispense call, no
\* later step writes its command to the channel.
C33_NoResendAfterResolution ==
    [][\A c \in Callers : C33_Resolved(c) => ~C33_WroteDispenseAgain]_vars

\* dispense call c has returned the timeout response to its caller
C34_ToldTimeout(c) ==
    /\ ckind[c] = "dispense"
    /\ cpc[c] = "returned"
    /\ response[c] # <<>>
    /\ response[c][1].message = "Operation timed out"

\* C34: after dispense has returned the timeout response, no step writes the
\* frame of a dispense command (the only one submitted is that call's).
C34_NoSendAfterTimeout ==
    [][(\E c \in Callers : C34_ToldTimeout(c))
       => ~(wrote' # <<>> /\ wrote'[1][3] \in {SELECT_BUY, DRIVE_AISLE_DIRECT})]_vars

\* the step runs a set_result that the callback of call c had scheduled
C35_RunsSetResult(c) == Len(posted'[c]) < Len(posted[c])

\* C35: a scheduled set_result is applied only to a future that is still
\* pending, never to one the timeout has cancelled or that holds a result.
C35_SetResultOnlyOnPending ==
    [][\A c \in Callers : C35_RunsSetResult(c) => fut[c] = "pending"]_vars

\* the lock is held exactly while its holder is inside a with-block
C36_HeldInsideBlock ==
    /\ lock \in {"free", "link", "caller"}
    /\ lock = "link" <=> linkpc = "locked"
    /\ lock = "caller" <=> \E c \in Callers : cpc[c] = "locked"

\* C36: the lock is held only by a thread inside a with-block, so no thread
\* that is about to acquire it holds it already, and once taken it is released
\* again, also by the POLL whose write raised.
C36_NoLockDeadlock ==
    /\ [](C36_HeldInsideBlock)
    /\ (lock # "free") ~> (lock = "free")

\* a POLL whose write of the head command raised has released the lock
C36_Witness ==
    /\ lock = "free"
    /\ linkpc = "idle"
    /\ handled = <<POLL>>
    /\ tried = 1
    /\ wrote = <<>>
    /\ command_queue # <<>>
    /\ ~command_queue[1].waiting_ack

\* the step is a POLL in which the write of the head command raised: after a
\* POLL the head is not in flight only then
C37_HeadWriteRaised ==
    /\ handled' = <<POLL>>
    /\ command_queue' # <<>>
    /\ ~command_queue'[1].waiting_ack

\* the head was in flight for longer than the timeout when the POLL arrived
C37_TimedOut ==
    /\ command_queue # <<>>
    /\ command_queue[1].waiting_ack
    /\ now - command_queue[1].sent_time > COMMAND_TIMEOUT

C37_Step ==
    /\ C37_HeadWriteRaised
       => /\ wrote' = <<>>
          /\ tried' = 1
          /\ LET q == command_queue
             IN  CASE ~C37_TimedOut
                        -> command_queue' = q
                   [] C37_TimedOut /\ q[1].retries + 1 < q[1].max_retries
                        -> command_queue' =
                              <<[q[1] EXCEPT !.retries = @ + 1, !.waiting_ack = FALSE]>>
                              \o Tail(q)
                   [] C37_TimedOut /\ q[1].retries + 1 >= q[1].max_retries
                        -> command_queue' = Tail(q)
    /\ (handled' = <<POLL>> /\ command_queue # <<>> /\ ~command_queue[1].waiting_ack)
       => /\ tried' = 1
          /\ \/ wrote' = <<command_queue[1].packet>>
             \/ wrote' = <<>> /\ command_queue' = command_queue /\ dropped' = dropped
    /\ (handled' = <<POLL>> /\ Len(command_queue') < Len(command_queue))
       => command_queue[1].waiting_ack /\ command_queue[1].writes >= 1

\* the attempt count of a queued command never exceeds its successful writes
C37_AttemptsAreWrites ==
    \A i \in 1..Len(command_queue) : command_queue[i].retries <= command_queue[i].writes

\* C37: a POLL in which the write of the head command raises writes nothing
\* else (no ACK), and the failed write changes nothing in the command: it stays
\* at the head, not in flight, with the send time and the attempt count it had
\* when the write was tried (a head that had just timed out has been counted
\* for that time-out, and a head dropped after its last attempt has left the
\* place to the next command).  A head that is not in flight is tried at every
\* POLL, a failed try leaves the queue as it was, the attempt count never
\* exceeds the number of successful writes, and only a command that was
\* written and is in flight is ever discarded.
C37_FailedWriteNotCounted == [](C37_AttemptsAreWrites) /\ [][C37_Step]_vars

\* the retry of a command that had timed out once has raised
C37_Witness ==
    /\ handled = <<POLL>>
    /\ tried = 1
    /\ wrote = <<>>
    /\ command_queue # <<>>
    /\ ~command_queue[1].waiting_ack
    /\ command_queue[1].writes = 1
    /\ command_queue[1].retries = 1

====
